---- MODULE Spec2Model ----
(***************************************************************************)
(* Recipe retrieval and ingredient-match scoring engine (RAGService of     *)
(* backend/services/rag_service.py).                                       *)
(*                                                                         *)
(* Strings are sequences of one-character strings, so that substring,      *)
(* suffix, split and edit operations are computed as the code computes     *)
(* them.  Percentages are integers in tenths (71.4 is 714).                *)
(***************************************************************************)
EXTENDS Integers, Sequences, FiniteSets, TLC

VARIABLES
  recipe_metadata,          \* self.recipe_metadata: the sequence of recipe records
  index,                    \* self.index: <<>> for None, else <<the sequence of vectors>>
  ingredient_aliases,       \* self.ingredient_aliases: the dict base -> alias list
  ingredient_substitutions, \* self.ingredient_substitutions, in iteration order
  ingredient_patterns,      \* self.ingredient_patterns: the dict cache key -> tier
  call,                     \* the operation invoked last, with its arguments
  ret,                      \* <<>> while it has not returned, else <<what it returned>>
  recipe_texts,             \* self.recipe_texts: the searchable text of every recipe
  disk,                     \* the four artifact files of the data directory
  faiss_ties,               \* the order the index library gives equal scores
  held,                     \* the references to engine records a caller holds
  tasks                     \* the search_recipes coroutines that have not returned

vars ==
  <<recipe_metadata, index, ingredient_aliases, ingredient_substitutions,
    ingredient_patterns, call, ret, recipe_texts, disk, faiss_ties, held, tasks>>

\* what the operations on the corpus in memory leave alone
store == <<recipe_texts, disk, faiss_ties, tasks>>

\* what only a caller changes
caller == <<held>>

\* ------------------------------------------------------------------------
\* Strings
\* ------------------------------------------------------------------------

Min(a, b) == IF a <= b THEN a ELSE b

Max(a, b) == IF a >= b THEN a ELSE b

UpperChars ==
  <<"A","B","C","D","E","F","G","H","I","J","K","L","M",
    "N","O","P","Q","R","S","T","U","V","W","X","Y","Z">>

LowerChars ==
  <<"a","b","c","d","e","f","g","h","i","j","k","l","m",
    "n","o","p","q","r","s","t","u","v","w","x","y","z">>

DigitChars == {"0","1","2","3","4","5","6","7","8","9"}

\* the characters str.split(), str.strip() and the regex class \s treat as space
Whitespace == {" ", "\t", "\n"}

\* str.lower() on one character
LowerChar(c) ==
  IF \E i \in 1..Len(UpperChars) : UpperChars[i] = c
    THEN LowerChars[CHOOSE i \in 1..Len(UpperChars) : UpperChars[i] = c]
    ELSE c

\* str.lower()
Lower(s) == [i \in 1..Len(s) |-> LowerChar(s[i])]

\* s[from-1 : to] of Python, as a 1-based inclusive slice
Slice(s, from, to) == IF from > to THEN <<>> ELSE SubSeq(s, from, to)

\* str.endswith
EndsWith(s, suffix) ==
  /\ Len(suffix) <= Len(s)
  /\ SubSeq(s, Len(s) - Len(suffix) + 1, Len(s)) = suffix

\* the `in` operator on two strings: sub occurs in s
Contains(s, sub) ==
  \E i \in 0..(Len(s) - Len(sub)) : Slice(s, i + 1, i + Len(sub)) = sub

\* str.strip(chars): drops the characters of `chars` from both ends
RECURSIVE LStripChars(_, _)
LStripChars(s, chars) ==
  IF s # <<>> /\ Head(s) \in chars THEN LStripChars(Tail(s), chars) ELSE s

RECURSIVE RStripChars(_, _)
RStripChars(s, chars) ==
  IF s # <<>> /\ s[Len(s)] \in chars
    THEN RStripChars(SubSeq(s, 1, Len(s) - 1), chars)
    ELSE s

StripChars(s, chars) == RStripChars(LStripChars(s, chars), chars)

\* str.strip()
Strip(s) == StripChars(s, Whitespace)

\* str.split(): the maximal runs of non-whitespace characters
RECURSIVE SplitFrom(_, _, _)
SplitFrom(s, i, word) ==
  IF i > Len(s)
    THEN (IF word = <<>> THEN <<>> ELSE <<word>>)
    ELSE IF s[i] \in Whitespace
      THEN (IF word = <<>> THEN <<>> ELSE <<word>>) \o SplitFrom(s, i + 1, <<>>)
      ELSE SplitFrom(s, i + 1, Append(word, s[i]))

Split(s) == SplitFrom(s, 1, <<>>)

\* ' '.join(words)
RECURSIVE Join(_)
Join(words) ==
  IF words = <<>> THEN <<>>
  ELSE IF Len(words) = 1 THEN words[1]
  ELSE words[1] \o <<" ">> \o Join(Tail(words))

\* [x for x in xs if keep(x)]
RECURSIVE FilterSeq(_, _)
FilterSeq(xs, drop) ==
  IF xs = <<>> THEN <<>>
  ELSE IF Head(xs) \in drop THEN FilterSeq(Tail(xs), drop)
  ELSE <<Head(xs)>> \o FilterSeq(Tail(xs), drop)

\* ------------------------------------------------------------------------
\* Ingredient normalizer
\* ------------------------------------------------------------------------

quantity_words ==
  {
    <<"c","u","p">>, <<"c","u","p","s">>, <<"t","a","b","l","e","s","p","o","o","n">>,
    <<"t","a","b","l","e","s","p","o","o","n","s">>, <<"t","b","s","p">>, <<"t","s","p">>,
    <<"t","e","a","s","p","o","o","n">>, <<"t","e","a","s","p","o","o","n","s">>,
    <<"p","o","u","n","d">>, <<"p","o","u","n","d","s">>, <<"l","b">>, <<"l","b","s">>,
    <<"o","u","n","c","e">>, <<"o","u","n","c","e","s">>, <<"o","z">>, <<"g","r","a","m">>,
    <<"g","r","a","m","s">>, <<"g">>, <<"k","i","l","o","g","r","a","m">>,
    <<"k","i","l","o","g","r","a","m","s">>, <<"k","g">>, <<"l","i","t","e","r">>,
    <<"l","i","t","e","r","s">>, <<"l">>, <<"m","i","l","l","i","l","i","t","e","r">>,
    <<"m","i","l","l","i","l","i","t","e","r","s">>, <<"m","l">>, <<"p","i","n","c","h">>,
    <<"d","a","s","h">>, <<"h","a","n","d","f","u","l">>, <<"b","u","n","c","h">>,
    <<"c","l","o","v","e">>, <<"c","l","o","v","e","s">>, <<"s","l","i","c","e">>,
    <<"s","l","i","c","e","s">>, <<"c","a","n">>, <<"c","a","n","s">>, <<"j","a","r">>,
    <<"j","a","r","s">>, <<"b","o","t","t","l","e">>, <<"b","o","t","t","l","e","s">>,
    <<"p","a","c","k","a","g","e">>, <<"p","a","c","k","a","g","e","s">>,
    <<"l","a","r","g","e">>, <<"m","e","d","i","u","m">>, <<"s","m","a","l","l">>,
    <<"e","x","t","r","a">>, <<"f","r","e","s","h">>, <<"d","r","i","e","d">>,
    <<"f","r","o","z","e","n">>, <<"c","a","n","n","e","d">>, <<"c","h","o","p","p","e","d">>,
    <<"d","i","c","e","d">>, <<"s","l","i","c","e","d">>, <<"m","i","n","c","e","d">>,
    <<"g","r","a","t","e","d">>, <<"s","h","r","e","d","d","e","d">>,
    <<"c","r","u","s","h","e","d">>, <<"b","o","n","e","l","e","s","s">>,
    <<"s","k","i","n","l","e","s","s">>, <<"w","h","o","l","e">>, <<"h","a","l","v","e","d">>,
    <<"q","u","a","r","t","e","r","e","d">>, <<"c","u","b","e","d">>
  }

\* the alternatives of the leading-article pattern ^(a|an|the)\s+
article_words == { <<"a">>, <<"a","n">>, <<"t","h","e">> }

\* the alternatives of the clause pattern \s+(and|or|with|without)\s+.*$
conjunction_words ==
  { <<"a","n","d">>, <<"o","r">>, <<"w","i","t","h">>, <<"w","i","t","h","o","u","t">> }

\* the number of consecutive digits of s starting at position i
RECURSIVE DigitRun(_, _)
DigitRun(s, i) ==
  IF i <= Len(s) /\ s[i] \in DigitChars THEN 1 + DigitRun(s, i + 1) ELSE 0

\* the length of the match of \d+/\d+|\d+\.\d+|\d+ at position i (0: no match)
NumberMatch(s, i) ==
  LET d1 == DigitRun(s, i)
      sep == i + d1
      d2 == DigitRun(s, sep + 1)
  IN  IF d1 = 0 THEN 0
      ELSE IF sep <= Len(s) /\ s[sep] = "/" /\ d2 > 0 THEN d1 + 1 + d2
      ELSE IF sep <= Len(s) /\ s[sep] = "." /\ d2 > 0 THEN d1 + 1 + d2
      ELSE d1

\* re.sub(r'\d+/\d+|\d+\.\d+|\d+', '', s)
RECURSIVE RemoveNumbersFrom(_, _)
RemoveNumbersFrom(s, i) ==
  IF i > Len(s) THEN <<>>
  ELSE LET k == NumberMatch(s, i)
       IN  IF k > 0 THEN RemoveNumbersFrom(s, i + k)
           ELSE <<s[i]>> \o RemoveNumbersFrom(s, i + 1)

RemoveNumbers(s) == RemoveNumbersFrom(s, 1)

\* re.sub(r'^(a|an|the)\s+', '', s) on a string of single-spaced words: the
\* first word goes when it is an article and another word follows it
RemoveArticle(words) ==
  IF Len(words) >= 2 /\ words[1] \in article_words THEN Tail(words) ELSE words

\* re.sub(r'\s+(and|or|with|without)\s+.*$', '', s) on single-spaced words: the
\* leftmost conjunction that has a word before it and a word after it, and
\* everything from it on, goes
TruncateAtConjunction(words) ==
  LET hits == { i \in 2..(Len(words) - 1) : words[i] \in conjunction_words }
  IN  IF hits = {} THEN words
      ELSE SubSeq(words, 1, (CHOOSE i \in hits : \A j \in hits : i <= j) - 1)

\* the plural rule, applied to the end of the whole string
ReducePlural(s) ==
  IF EndsWith(s, <<"i","e","s">>)
    THEN SubSeq(s, 1, Len(s) - 3) \o <<"y">>
  ELSE IF \/ EndsWith(s, <<"c","h","e","s">>)
          \/ EndsWith(s, <<"s","h","e","s">>)
          \/ EndsWith(s, <<"x","e","s">>)
          \/ EndsWith(s, <<"z","e","s">>)
    THEN s
  ELSE IF EndsWith(s, <<"o","e","s">>)
    THEN SubSeq(s, 1, Len(s) - 2)
  ELSE IF EndsWith(s, <<"s">>) /\ Len(s) > 3
    THEN SubSeq(s, 1, Len(s) - 1)
  ELSE s

\* RAGService._normalize_ingredient
_normalize_ingredient(ingredient) ==
  IF ingredient = <<>> THEN <<>>
  ELSE LET lowered  == Strip(Lower(ingredient))
           numbers  == RemoveNumbers(lowered)
           words    == FilterSeq(Split(numbers), quantity_words)
           trimmed  == TruncateAtConjunction(RemoveArticle(words))
           singular == ReducePlural(Join(trimmed))
       IN  Join(Split(singular))

\* ------------------------------------------------------------------------
\* Ingredient matcher
\* ------------------------------------------------------------------------

\* the length of the common run of a from i and b from j (0-based positions),
\* inside a[.. ahi) and b[.. bhi)
RECURSIVE CommonRun(_, _, _, _, _, _)
CommonRun(a, b, i, j, ahi, bhi) ==
  IF i < ahi /\ j < bhi /\ a[i + 1] = b[j + 1]
    THEN 1 + CommonRun(a, b, i + 1, j + 1, ahi, bhi)
    ELSE 0

\* the longest common run that starts at one of `starts`
LongestRun(a, b, starts, ahi, bhi) ==
  IF starts = {} THEN 0
  ELSE LET p == CHOOSE p \in starts :
                  \A q \in starts :
                    CommonRun(a, b, q[1], q[2], ahi, bhi) <= CommonRun(a, b, p[1], p[2], ahi, bhi)
       IN  CommonRun(a, b, p[1], p[2], ahi, bhi)

\* the first of `starts`, by position in a and then in b, with a run of `best`
FirstLongest(a, b, starts, ahi, bhi, best) ==
  CHOOSE p \in starts :
    /\ CommonRun(a, b, p[1], p[2], ahi, bhi) = best
    /\ \A q \in starts :
         CommonRun(a, b, q[1], q[2], ahi, bhi) = best
           => (p[1] < q[1] \/ (p[1] = q[1] /\ p[2] <= q[2]))

\* <<i, j, k>> for the block of size `best`
BlockOf(a, b, starts, alo, ahi, blo, bhi, best) ==
  IF best = 0 THEN <<alo, blo, 0>>
  ELSE <<FirstLongest(a, b, starts, ahi, bhi, best)[1],
         FirstLongest(a, b, starts, ahi, bhi, best)[2], best>>

\* difflib.SequenceMatcher.find_longest_match(alo, ahi, blo, bhi) with no junk:
\* the longest common block, of those the one starting earliest in a, and of
\* those the one starting earliest in b; <<alo, blo, 0>> when there is none
find_longest_match(a, b, alo, ahi, blo, bhi) ==
  BlockOf(a, b, (alo..(ahi - 1)) \X (blo..(bhi - 1)), alo, ahi, blo, bhi,
          LongestRun(a, b, (alo..(ahi - 1)) \X (blo..(bhi - 1)), ahi, bhi))

\* the sum of the sizes of difflib.SequenceMatcher.get_matching_blocks(): the
\* longest match m = <<i, j, k>>, then the same to its left and to its right
RECURSIVE MatchedSize(_, _, _, _, _, _)
AroundMatch(a, b, alo, ahi, blo, bhi, m) ==
  IF m[3] = 0 THEN 0
  ELSE m[3]
       + (IF alo < m[1] /\ blo < m[2]
            THEN MatchedSize(a, b, alo, m[1], blo, m[2]) ELSE 0)
       + (IF m[1] + m[3] < ahi /\ m[2] + m[3] < bhi
            THEN MatchedSize(a, b, m[1] + m[3], ahi, m[2] + m[3], bhi) ELSE 0)

MatchedSize(a, b, alo, ahi, blo, bhi) ==
  AroundMatch(a, b, alo, ahi, blo, bhi, find_longest_match(a, b, alo, ahi, blo, bhi))

\* SequenceMatcher(None, a, b).ratio() as the fraction <<numerator, denominator>>
\* 2 * matches / (len(a) + len(b)); 1 when both are empty
Ratio(a, b) ==
  IF Len(a) + Len(b) = 0 THEN <<1, 1>>
  ELSE <<2 * MatchedSize(a, b, 0, Len(a), 0, Len(b)), Len(a) + Len(b)>>

\* the similarity threshold of the fuzzy step, in percent
FuzzyThresholdPercent == 80

\* SequenceMatcher(None, recipe_ingredient, user_ing).ratio() >= 0.8
AtLeastThreshold(r) == 100 * r[1] >= FuzzyThresholdPercent * r[2]

FuzzyMatch(recipe_ingredient, user_ing) == AtLeastThreshold(Ratio(recipe_ingredient, user_ing))

\* `x in xs` on a list
InList(x, xs) == \E i \in 1..Len(xs) : xs[i] = x

\* RAGService._check_ingredient_aliases; `aliases` is the dict base -> alias list
_check_ingredient_aliases(aliases, recipe_ingredient, user_ingredients) ==
  \E base_ingredient \in DOMAIN aliases :
    /\ InList(recipe_ingredient, aliases[base_ingredient])
    /\ \E i \in 1..Len(user_ingredients) :
         InList(user_ingredients[i], aliases[base_ingredient])

\* _ingredients_match with its substring step testing one direction only
IngredientsMatchOneWay(aliases, recipe_ingredient, user_ingredients) ==
  IF recipe_ingredient = <<>> \/ user_ingredients = <<>> THEN FALSE
  ELSE IF InList(recipe_ingredient, user_ingredients) THEN TRUE
  ELSE IF \E i \in 1..Len(user_ingredients) :
            Contains(user_ingredients[i], recipe_ingredient)
    THEN TRUE
  ELSE IF \E i \in 1..Len(user_ingredients) :
            FuzzyMatch(recipe_ingredient, user_ingredients[i])
    THEN TRUE
  ELSE _check_ingredient_aliases(aliases, recipe_ingredient, user_ingredients)

\* RAGService._ingredients_match
_ingredients_match(aliases, recipe_ingredient, user_ingredients) ==
  IF recipe_ingredient = <<>> \/ user_ingredients = <<>> THEN FALSE
  ELSE IF InList(recipe_ingredient, user_ingredients) THEN TRUE
  ELSE IF \E i \in 1..Len(user_ingredients) :
            \/ Contains(user_ingredients[i], recipe_ingredient)
            \/ Contains(recipe_ingredient, user_ingredients[i])
    THEN TRUE
  ELSE IF \E i \in 1..Len(user_ingredients) :
            FuzzyMatch(recipe_ingredient, user_ingredients[i])
    THEN TRUE
  ELSE _check_ingredient_aliases(aliases, recipe_ingredient, user_ingredients)

\* ------------------------------------------------------------------------
\* Criticality analyzer
\* ------------------------------------------------------------------------

\* set(text.lower().split())
WordSet(text) == LET ws == Split(Lower(text)) IN { ws[i] : i \in 1..Len(ws) }

\* the overlap of two names as the fraction <<|common|, max(|A|, |B|)>>
NameOverlap(name, other) ==
  LET name_words  == WordSet(name)
      other_words == WordSet(other)
  IN  <<Cardinality(name_words \cap other_words),
        Max(Cardinality(name_words), Cardinality(other_words))>>

\* a finder whose threshold is not strict: similarity_score >= 0.3
IsSimilarNameAtLeast(name, other) ==
  LET o == NameOverlap(name, other)
  IN  o[1] > 0 /\ 10 * o[1] >= 3 * o[2]

\* len(common_words) > 0 and similarity_score > 0.3
IsSimilarName(name, other) ==
  LET o == NameOverlap(name, other)
  IN  o[1] > 0 /\ 10 * o[1] > 3 * o[2]

\* position p comes before position q after the stable sort by descending score
RanksBefore(metadata, name, p, q) ==
  LET sp == NameOverlap(name, metadata[p].name)
      sq == NameOverlap(name, metadata[q].name)
  IN  \/ sp[1] * sq[2] > sq[1] * sp[2]
      \/ (sp[1] * sq[2] = sq[1] * sp[2] /\ p < q)

\* the positions of a set in the order RanksBefore gives
RECURSIVE SortPositions(_, _, _)
SortPositions(metadata, name, positions) ==
  IF positions = {} THEN <<>>
  ELSE LET first == CHOOSE p \in positions :
                      \A q \in positions \ {p} : RanksBefore(metadata, name, p, q)
       IN  <<first>> \o SortPositions(metadata, name, positions \ {first})

\* RAGService._find_similar_recipes_by_name, as positions of recipe_metadata
_find_similar_recipes_by_name(metadata, recipe_name, limit) ==
  LET similar == { p \in 1..Len(metadata) : IsSimilarName(recipe_name, metadata[p].name) }
      sorted  == SortPositions(metadata, recipe_name, similar)
  IN  SubSeq(sorted, 1, Min(limit, Len(sorted)))

\* the characters ingredient_string.strip('[]"') drops
BracketChars == {"[", "]", "\""}

\* the normalized form under which _analyze_ingredient_criticality counts a tag
\* (the empty string: the tag is not counted)
CountedForm(ingredient_string) ==
  LET cleaned_ingredient == StripChars(ingredient_string, BracketChars)
  IN  IF cleaned_ingredient = <<>> THEN <<>>
      ELSE _normalize_ingredient(cleaned_ingredient)

\* how often the tags of one recipe increment ingredient_counts[normalized]
CountInRecipe(tags, normalized) ==
  Cardinality({ i \in 1..Len(tags) : CountedForm(tags[i]) = normalized })

\* ingredient_counts[normalized] after the loop over similar_recipes
RECURSIVE IngredientCount(_, _, _)
IngredientCount(metadata, similar, normalized) ==
  IF similar = <<>> THEN 0
  ELSE CountInRecipe(metadata[Head(similar)].ingredient_tags, normalized)
       + IngredientCount(metadata, Tail(similar), normalized)

\* tiers whose thresholds are not reached by a frequency equal to them
TierOfFrequencyAbove(count, total_recipes) ==
  IF 10 * count > 8 * total_recipes THEN "critical"
  ELSE IF 10 * count > 5 * total_recipes THEN "important"
  ELSE IF 10 * count > 2 * total_recipes THEN "optional"
  ELSE "rare"

\* the tier of frequency = count / total_recipes
TierOfFrequency(count, total_recipes) ==
  IF 10 * count >= 8 * total_recipes THEN "critical"
  ELSE IF 10 * count >= 5 * total_recipes THEN "important"
  ELSE IF 10 * count >= 2 * total_recipes THEN "optional"
  ELSE "rare"

\* RAGService._analyze_ingredient_criticality: the dict normalized -> tier
_analyze_ingredient_criticality(metadata, similar) ==
  IF similar = <<>> THEN << >>
  ELSE LET forms(tags) == { CountedForm(tags[j]) : j \in 1..Len(tags) }
           counted == UNION { forms(metadata[similar[i]].ingredient_tags) :
                                i \in 1..Len(similar) }
                      \ { <<>> }
       IN  [ingredient \in counted |->
              TierOfFrequency(IngredientCount(metadata, similar, ingredient), Len(similar))]

\* f"{recipe_name}_{ingredient}"
CacheKey(recipe_name, ingredient) == recipe_name \o <<"_">> \o ingredient

\* the limit _get_pattern_based_criticality and preload pass to the name search
SimilarLimit == 20

\* criticality_scores.get(normalized_ingredient, 'optional')
TierIn(scores, normalized_ingredient) ==
  IF normalized_ingredient \in DOMAIN scores
    THEN scores[normalized_ingredient] ELSE "optional"

\* self.ingredient_patterns[cache_key] = criticality; return criticality
StoreTier(patterns, cache_key, criticality) ==
  [tier |-> criticality,
   patterns |-> [k \in DOMAIN patterns \cup {cache_key} |->
                   IF k = cache_key THEN criticality ELSE patterns[k]]]

\* _get_pattern_based_criticality after the cache has missed
ComputeCriticality(metadata, patterns, cache_key, similar, ingredient) ==
  IF similar = <<>> THEN [tier |-> "optional", patterns |-> patterns]
  ELSE StoreTier(patterns, cache_key,
                 TierIn(_analyze_ingredient_criticality(metadata, similar),
                        _normalize_ingredient(ingredient)))

\* a lookup that computes the tier whether or not the key is cached
LookupCriticalityAfresh(metadata, patterns, cache_key, recipe_name, ingredient) ==
  ComputeCriticality(
    metadata, patterns, cache_key,
    _find_similar_recipes_by_name(metadata, recipe_name, SimilarLimit), ingredient)

\* _get_pattern_based_criticality with its cache key
LookupCriticality(metadata, patterns, cache_key, recipe_name, ingredient) ==
  IF cache_key \in DOMAIN patterns
    THEN [tier |-> patterns[cache_key], patterns |-> patterns]
    ELSE ComputeCriticality(
           metadata, patterns, cache_key,
           _find_similar_recipes_by_name(metadata, recipe_name, SimilarLimit), ingredient)

\* RAGService._get_pattern_based_criticality: the tier returned and the cache
\* it leaves
_get_pattern_based_criticality(metadata, patterns, recipe_name, ingredient) ==
  LookupCriticality(metadata, patterns, CacheKey(recipe_name, ingredient), recipe_name,
                    ingredient)

\* ------------------------------------------------------------------------
\* Match scorer
\* ------------------------------------------------------------------------

RECURSIVE GCD(_, _)
GCD(a, b) == IF b = 0 THEN a ELSE GCD(b, a % b)

\* round(n / d * 100, 1) in tenths, for 0 <= n and 0 < d: the set of values the
\* float arithmetic can give.  Off a tie it is the nearest tenth.  On a tie the
\* value is exact in binary only when n/d has denominator 16, and round() then
\* goes to the even tenth; any other tie is decided by the representation error
\* of the quotient, so both neighbours are possible.
RoundedPercent(n, d) ==
  LET below == (1000 * n) \div d
      rest  == (1000 * n) % d
  IN  IF 2 * rest < d THEN {below}
      ELSE IF 2 * rest > d THEN {below + 1}
      ELSE IF d \div GCD(n, d) = 16
        THEN {IF below % 2 = 0 THEN below ELSE below + 1}
      ELSE {below, below + 1}

\* the weights of the tiers in the weighted score
WeightCritical == 4

WeightImportant == 3

WeightOptional == 2

WeightRare == 1

\* how many of the missing ingredients get substitution suggestions
SuggestionLimit == 5

\* RAGService._get_ingredient_substitution_suggestions; `substitutions` is the
\* dict key -> suggestions, in its iteration order
_get_ingredient_substitution_suggestions(substitutions, ingredient) ==
  LET normalized == _normalize_ingredient(ingredient)
      hits == { i \in 1..Len(substitutions) :
                  \/ Contains(normalized, substitutions[i].key)
                  \/ Contains(substitutions[i].key, normalized) }
  IN  IF hits = {} THEN <<>>
      ELSE substitutions[CHOOSE i \in hits : \A j \in hits : i <= j].subs

\* the tiers, and the list of missing ingredients each has
Tiers == {"critical", "important", "optional", "rare"}

\* the branch of the if/elif chain a tier takes: what is none of the first
\* three is filed as rare
TierSlot(tier) == IF tier \in {"critical", "important", "optional"} THEN tier ELSE "rare"

\* one round of the loop of _calculate_enhanced_ingredient_match: the tag is
\* counted as matched, or filed under the tier `looked` found for it
ClassifyTag(acc, original_ingredient, matched, looked) ==
  IF matched THEN [acc EXCEPT !.matches = @ + 1]
  ELSE [acc EXCEPT !.missing[TierSlot(looked.tier)] = Append(@, original_ingredient),
                   !.patterns = looked.patterns]

\* the loop of _calculate_enhanced_ingredient_match over the recipe's tags
\* lo..hi in order, as a fold split at the middle of the range; the first half
\* is finished (its count is read) before the second half starts
RECURSIVE ClassifyTags(_, _, _, _, _, _, _)
ClassifyTags(metadata, aliases, recipe, user_ingredients_normalized, lo, hi, acc) ==
  IF lo > hi \/ acc.matches < 0 THEN acc
  ELSE IF lo = hi
  THEN ClassifyTag(
         acc, recipe.ingredient_tags[lo],
         _ingredients_match(aliases, _normalize_ingredient(recipe.ingredient_tags[lo]),
                            user_ingredients_normalized),
         _get_pattern_based_criticality(metadata, acc.patterns, recipe.name,
                                        recipe.ingredient_tags[lo]))
  ELSE ClassifyTags(
         metadata, aliases, recipe, user_ingredients_normalized,
         (lo + hi) \div 2 + 1, hi,
         ClassifyTags(metadata, aliases, recipe, user_ingredients_normalized,
                      lo, (lo + hi) \div 2, acc))

\* actual_weighted_score with rare_matches taken as the optional matches are,
\* the rare missing ingredients not subtracted
ActualWeightedScoreIgnoringRare(total, critical, important, optional, rare) ==
  (total - critical) * WeightCritical
  + (total - important - critical) * WeightImportant
  + (total - optional - important - critical) * WeightOptional
  + (total - (critical + important + optional)) * WeightRare

\* actual_weighted_score of _calculate_enhanced_ingredient_match
ActualWeightedScore(total, critical, important, optional, rare) ==
  (total - critical) * WeightCritical
  + (total - important - critical) * WeightImportant
  + (total - optional - important - critical) * WeightOptional
  + (total - (critical + important + optional + rare)) * WeightRare

\* max_weighted_score of _calculate_enhanced_ingredient_match
MaxWeightedScore(total, critical, important, optional, rare) ==
  (critical + (total - critical)) * WeightCritical
  + (important + (total - important - critical)) * WeightImportant
  + (optional + (total - optional - important - critical)) * WeightOptional
  + (rare + (total - (critical + important + optional + rare))) * WeightRare

\* round(x / y * 100, 1) if y > 0 else 0
PercentOf(x, y) == IF y > 0 THEN RoundedPercent(x, y) ELSE {0}

\* round(weighted_score, 1) in tenths, as the set of values it can take
WeightedScore(total, critical, important, optional, rare) ==
  IF total > 0
    THEN PercentOf(ActualWeightedScore(total, critical, important, optional, rare),
                   MaxWeightedScore(total, critical, important, optional, rare))
    ELSE {0}

\* suggestions looked up for every missing ingredient
SubstitutionSuggestionsForAll(substitutions, missing) ==
  LET asked == { missing[i] : i \in 1..Len(missing) }
      subs  == [m \in asked |-> _get_ingredient_substitution_suggestions(substitutions, m)]
  IN  [m \in { x \in asked : subs[x] # <<>> } |-> subs[m]]

\* substitution_suggestions: the dict over missing[:5] of the non-empty lookups
SubstitutionSuggestions(substitutions, missing) ==
  LET asked == { missing[i] : i \in 1..Min(SuggestionLimit, Len(missing)) }
      subs  == [m \in asked |-> _get_ingredient_substitution_suggestions(substitutions, m)]
  IN  [m \in { x \in asked : subs[x] # <<>> } |-> subs[m]]

\* [self._normalize_ingredient(x) for x in xs]
NormalizeAll(xs) == [i \in 1..Len(xs) |-> _normalize_ingredient(xs[i])]

\* the early result with an empty missing list
EarlyMatchNothingMissing(recipe) ==
  [matches |-> 0,
   total |-> Len(recipe.ingredient_tags),
   percentage |-> 0,
   weighted_percentage |-> 0,
   missing |-> <<>>,
   critical_missing |-> recipe.ingredient_tags,
   important_missing |-> <<>>,
   replaceable_missing |-> <<>>,
   substitution_suggestions |-> << >>,
   hasAllIngredients |-> FALSE,
   hasAllCriticalIngredients |-> FALSE]

\* the result _calculate_enhanced_ingredient_match returns early
EarlyMatch(recipe) ==
  [matches |-> 0,
   total |-> Len(recipe.ingredient_tags),
   percentage |-> 0,
   weighted_percentage |-> 0,
   missing |-> recipe.ingredient_tags,
   critical_missing |-> recipe.ingredient_tags,
   important_missing |-> <<>>,
   replaceable_missing |-> <<>>,
   substitution_suggestions |-> << >>,
   hasAllIngredients |-> FALSE,
   hasAllCriticalIngredients |-> FALSE]

\* the result after the loop with hasAllIngredients taken from the critical
\* list alone
ScoredMatchAllWhenNoCritical(substitutions, acc, total, missing, p, w) ==
  [matches |-> acc.matches,
   total |-> total,
   percentage |-> p,
   weighted_percentage |-> w,
   missing |-> missing,
   critical_missing |-> acc.missing["critical"],
   important_missing |-> acc.missing["important"],
   replaceable_missing |-> acc.missing["optional"] \o acc.missing["rare"],
   substitution_suggestions |-> SubstitutionSuggestions(substitutions, missing),
   hasAllIngredients |-> (Len(acc.missing["critical"]) = 0),
   hasAllCriticalIngredients |-> (Len(acc.missing["critical"]) = 0)]

\* the result _calculate_enhanced_ingredient_match returns after its loop
\* left `acc`, with the rounded percentages p and w
ScoredMatch(substitutions, acc, total, missing, p, w) ==
  [matches |-> acc.matches,
   total |-> total,
   percentage |-> p,
   weighted_percentage |-> w,
   missing |-> missing,
   critical_missing |-> acc.missing["critical"],
   important_missing |-> acc.missing["important"],
   replaceable_missing |-> acc.missing["optional"] \o acc.missing["rare"],
   substitution_suggestions |-> SubstitutionSuggestions(substitutions, missing),
   hasAllIngredients |-> (acc.matches = total),
   hasAllCriticalIngredients |-> (Len(acc.missing["critical"]) = 0)]

\* the outcomes [match, patterns] of the scoring after the loop left `acc`
ScoredOutcomes(substitutions, acc, total) ==
  { [match |-> ScoredMatch(
                 substitutions, acc, total,
                 acc.missing["critical"] \o acc.missing["important"]
                   \o acc.missing["optional"] \o acc.missing["rare"],
                 p, w),
     patterns |-> acc.patterns] :
    p \in PercentOf(acc.matches, total),
    w \in WeightedScore(total, Len(acc.missing["critical"]), Len(acc.missing["important"]),
                        Len(acc.missing["optional"]), Len(acc.missing["rare"])) }

\* RAGService._calculate_enhanced_ingredient_match: the set of outcomes
\* [match, patterns], one per value the rounding can give
_calculate_enhanced_ingredient_match(metadata, aliases, substitutions, patterns, recipe, user_ingredients) ==
  IF user_ingredients = <<>> \/ recipe.ingredient_tags = <<>>
    THEN { [match |-> EarlyMatch(recipe), patterns |-> patterns] }
    ELSE ScoredOutcomes(
           substitutions,
           ClassifyTags(metadata, aliases, recipe, NormalizeAll(user_ingredients), 1,
                        Len(recipe.ingredient_tags),
                        [matches |-> 0, missing |-> [t \in Tiers |-> <<>>],
                         patterns |-> patterns]),
           Len(recipe.ingredient_tags))

\* ------------------------------------------------------------------------
\* Vector index
\* ------------------------------------------------------------------------

\* Unit vectors are directions on a circle of NumDirections points; the inner
\* product of two of them falls as their circular distance grows.
NumDirections == 4

Directions == 0..(NumDirections - 1)

CircularDistance(u, v) ==
  LET d == IF u >= v THEN u - v ELSE v - u IN Min(d, NumDirections - d)

\* vector p scores at least as high as vector q against the query
ScoresAtLeast(vectors, query, p, q) ==
  CircularDistance(query, vectors[p]) <= CircularDistance(query, vectors[q])

\* faiss IndexFlatIP.search(query, k): the positions of the k best vectors by
\* descending inner product, as the set of orders the index can return (the
\* order among equal scores is the library's)
RECURSIVE TopK(_, _, _, _)
TopK(vectors, query, positions, k) ==
  IF k = 0 \/ positions = {} THEN { <<>> }
  ELSE LET best == { p \in positions :
                       \A q \in positions : ScoresAtLeast(vectors, query, p, q) }
       IN  UNION { { <<p>> \o rest : rest \in TopK(vectors, query, positions \ {p}, k - 1) } :
                   p \in best }

\* ------------------------------------------------------------------------
\* Corpus sources, tables and requests
\* ------------------------------------------------------------------------

\* two soups whose names share two words
SoupSource ==
  <<
    [name |-> <<"t","o","m","a","t","o"," ","s","o","u","p">>,
     ingredient_tags |-> <<<<"t","o","m","a","t","o">>, <<"o","n","i","o","n">>, <<"g","a","r","l","i","c">>, <<"c","r","e","a","m">>>>,
     embedding |-> 0],
    [name |-> <<"t","o","m","a","t","o"," ","b","a","s","i","l"," ","s","o","u","p">>,
     ingredient_tags |-> <<<<"t","o","m","a","t","o">>, <<"o","n","i","o","n">>, <<"b","a","s","i","l">>>>,
     embedding |-> 1]
  >>

\* six similar names: salt in 5 of 6, egg in 3, rice in 2, kale in 1; one row without tags
StewSource ==
  <<
    [name |-> <<"s","t","e","w">>,
     ingredient_tags |-> <<<<"s","a","l","t">>, <<"e","g","g">>, <<"r","i","c","e">>, <<"k","a","l","e">>>>,
     embedding |-> 0],
    [name |-> <<"f","i","s","h"," ","s","t","e","w">>,
     ingredient_tags |-> <<<<"s","a","l","t">>, <<"e","g","g">>, <<"r","i","c","e">>>>,
     embedding |-> 1],
    [name |-> <<"s","t","e","w">>,
     ingredient_tags |-> <<<<"s","a","l","t">>, <<"e","g","g">>>>,
     embedding |-> 2],
    [name |-> <<"f","i","s","h"," ","s","t","e","w">>,
     ingredient_tags |-> <<<<"s","a","l","t">>>>,
     embedding |-> 3],
    [name |-> <<"s","t","e","w">>,
     ingredient_tags |-> <<<<"s","a","l","t">>>>,
     embedding |-> 3],
    [name |-> <<"s","t","e","w">>,
     ingredient_tags |-> <<>>,
     embedding |-> 5]
  >>

\* tags that differ from their normalized form: a plural beside its singular, a quoted tag, a tag of a number and a unit only
OmeletSource ==
  <<
    [name |-> <<"o","m","e","l","e","t">>,
     ingredient_tags |-> <<<<"e","g","g">>, <<"e","g","g","s">>>>,
     embedding |-> 0],
    [name |-> <<"o","m","e","l","e","t"," ","p","i","e">>,
     ingredient_tags |-> <<<<"\"","s","a","l","t","\"">>, <<"2"," ","c","u","p","s">>>>,
     embedding |-> 2],
    [name |-> <<"r","i","c","e">>,
     ingredient_tags |-> <<<<"r","i","c","e">>, <<"p","e","a","s">>>>,
     embedding |-> 4]
  >>

\* one name twice; the tag of both rows normalizes to the other tag of the first
SaladSource ==
  <<
    [name |-> <<"s","a","l","a","d">>,
     ingredient_tags |-> <<<<"p","e","a","s","s">>, <<"p","e","a","s">>>>,
     embedding |-> 0],
    [name |-> <<"s","a","l","a","d">>,
     ingredient_tags |-> <<<<"p","e","a","s","s">>>>,
     embedding |-> 2]
  >>

\* the contents recipes_small.csv can have
CorpusSources == { SoupSource, StewSource, OmeletSource, SaladSource }

\* ingredient_aliases.json: missing, or two groups
AliasTables ==
  { << >>,
    [base \in { <<"s","c","a","l","l","i","o","n">>, <<"a","b">> } |->
       IF base = <<"a","b">>
         THEN << <<"a","b">>, <<"b","a">> >>
         ELSE << <<"p","e","a">>, <<"k","a","l","e">> >>] }

\* ingredient_substitutions.json
SubstitutionTable ==
  << [key |-> <<"c","r","e","a","m">>, subs |-> << <<"m","i","l","k">> >>],
     [key |-> <<"e","g","g">>, subs |-> << <<"t","o","f","u">>, <<"f","l","a","x">> >>] >>

\* the ingredient lists a request can carry
UserLists ==
  {
    <<>>,
    <<<<"e","g","g","s">>>>,
    <<<<"s","a","l","t">>>>,
    <<<<"t","o","m","a","t","o">>, <<"o","n","i","o","n","s">>>>,
    <<<<"2"," ","c","u","p","s">>>>,
    <<<<"s","a","l","t">>, <<"e","g","g">>, <<"r","i","c","e">>, <<"k","a","l","e">>>>,
    <<<<"p","e","a">>, <<"c","r","e","a","m">>>>
  }

\* the largest limit a request carries
MaxLimit == 2

\* ------------------------------------------------------------------------
\* Operations
\* ------------------------------------------------------------------------

\* the tags _load_recipes makes of a row: stripped, lowercased, empty ones dropped
CleanTags(tags) ==
  LET kept == { i \in 1..Len(tags) : Strip(tags[i]) # <<>> }
      nth(k) == CHOOSE i \in kept : Cardinality({ j \in kept : j <= i }) = k
  IN  [k \in 1..Cardinality(kept) |-> Lower(Strip(tags[nth(k)]))]

\* a load that numbers the records from 0, as the rows of the frame are
LoadRecipesNumberedFromZero(source) ==
  [idx \in 1..Len(source) |->
     [id |-> idx - 1,
      name |-> source[idx].name,
      ingredient_tags |-> CleanTags(source[idx].ingredient_tags)]]

\* RAGService._load_recipes: recipe_metadata for the rows of the source
_load_recipes(source) ==
  [idx \in 1..Len(source) |->
     [id |-> idx,
      name |-> source[idx].name,
      ingredient_tags |-> CleanTags(source[idx].ingredient_tags)]]

\* RAGService._create_faiss_index: one vector per row, in row order
_create_faiss_index(source) == [idx \in 1..Len(source) |-> source[idx].embedding]

\* how many recipe names preload_pattern_analysis analyses
PreloadLimit == 100

\* the orders in which a set can be iterated
Orderings(S) ==
  { o \in [1..Cardinality(S) -> S] : \A i, j \in 1..Cardinality(S) : o[i] = o[j] => i = j }

\* the cache after every tier of `scores` is stored under the key of its
\* ingredient for recipe_name
StoreScores(patterns, recipe_name, scores) ==
  LET keys == { CacheKey(recipe_name, ingredient) : ingredient \in DOMAIN scores }
  IN  [k \in DOMAIN patterns \cup keys |->
         IF k \in keys
           THEN scores[CHOOSE ingredient \in DOMAIN scores :
                         CacheKey(recipe_name, ingredient) = k]
           ELSE patterns[k]]

\* the preload of a name whose similar recipes are `similar`
PreloadSimilar(metadata, patterns, recipe_name, similar) ==
  IF similar = <<>> THEN patterns
  ELSE StoreScores(patterns, recipe_name, _analyze_ingredient_criticality(metadata, similar))

\* one round of the preload loop: the similar recipes of recipe_name are
\* analysed and every tier found is stored under its key
PreloadName(metadata, patterns, recipe_name) ==
  IF recipe_name = <<>> THEN patterns
  ELSE PreloadSimilar(metadata, patterns, recipe_name,
                      _find_similar_recipes_by_name(metadata, recipe_name, SimilarLimit))

RECURSIVE PreloadNames(_, _, _)
PreloadNames(metadata, patterns, names) ==
  IF names = <<>> THEN patterns
  ELSE PreloadNames(metadata, PreloadName(metadata, patterns, Head(names)), Tail(names))

\* RAGService.preload_pattern_analysis: the caches it can leave, one per
\* choice and order of the names taken from the set of names
TakenNames(recipe_names) ==
  { S \in SUBSET recipe_names :
      Cardinality(S) = Min(PreloadLimit, Cardinality(recipe_names)) }

preload_pattern_analysis(metadata, patterns) ==
  { PreloadNames(metadata, patterns, o) :
      o \in UNION { Orderings(S) :
                    S \in TakenNames({ metadata[p].name : p \in 1..Len(metadata) }) } }

\* RAGService._load_recipes: recipe_texts for the rows of the source; a text
\* is kept as the name it starts with and the vector the model encodes it to
_load_texts(source) ==
  [idx \in 1..Len(source) |->
     [name |-> source[idx].name, embedding |-> source[idx].embedding]]

\* ------------------------------------------------------------------------
\* Persisted artifacts
\* ------------------------------------------------------------------------

\* recipe_metadata.json, recipe_texts.json, faiss_index.faiss, index_config.json
Artifacts == {"metadata", "texts", "index", "config"}

\* a file that does not exist
Absent == [kind |-> "absent"]

\* a file that exists and does not deserialise
Unreadable == [kind |-> "unreadable"]

\* a file that deserialises to `content`
FileOf(content) == [kind |-> "written", content |-> content]

\* the data directory before anything is saved
EmptyDisk == [f \in Artifacts |-> Absent]

\* the keys _has_cached_embeddings requires of the config
RequiredKeys == {"model_name", "num_recipes", "embedding_dim"}

\* the config _save_embeddings writes
ConfigOf(metadata) ==
  [shape |-> "object",
   keys |-> {"model_name", "num_recipes", "embedding_dim", "index_type", "created_at"},
   num_recipes |-> Len(metadata)]

\* `all(key in config for key in [...])` for a parsed config: a scalar (null,
\* a number, a boolean) supports no `in` and raises TypeError; a list, or a
\* string that does not spell the keys, holds none of them
ConfigHasKeys(config) ==
  IF config.shape = "scalar" THEN [raised |-> TRUE, value |-> FALSE]
  ELSE [raised |-> FALSE,
        value |-> config.shape = "object" /\ RequiredKeys \subseteq config.keys]

\* RAGService._has_cached_embeddings: the value returned, or raised = TRUE
\* for an exception that its except clause does not catch
_has_cached_embeddings(d) ==
  IF \E f \in Artifacts : d[f].kind = "absent" THEN [raised |-> FALSE, value |-> FALSE]
  ELSE IF d["config"].kind = "unreadable" THEN [raised |-> FALSE, value |-> FALSE]
  ELSE ConfigHasKeys(d["config"].content)

\* the order in which _save_embeddings writes its files
SaveOrder == <<"metadata", "texts", "index", "config">>

\* no write fails
NoFault == [at |-> 0, torn |-> FALSE]

\* what can go wrong in a save: write number `at` fails, before the file is
\* opened (it is left as it was) or after (it is left torn)
SaveFaults == { NoFault } \cup { [at |-> k, torn |-> t] : k \in 1..Len(SaveOrder), t \in BOOLEAN }

\* what _save_embeddings writes to each file
SavedContent(metadata, texts, vectors) ==
  [f \in Artifacts |->
     CASE f = "metadata" -> metadata
       [] f = "texts"    -> texts
       [] f = "index"    -> vectors
       [] f = "config"   -> ConfigOf(metadata)]

\* the position of a file in the order of the writes
WriteNumber(f) == CHOOSE k \in 1..Len(SaveOrder) : SaveOrder[k] = f

\* RAGService._save_embeddings under a fault: the files it leaves, and whether
\* it raised
_save_embeddings(d, metadata, texts, vectors, fault) ==
  [disk |-> [f \in Artifacts |->
               IF fault.at = 0 \/ WriteNumber(f) < fault.at
                 THEN FileOf(SavedContent(metadata, texts, vectors)[f])
               ELSE IF WriteNumber(f) = fault.at /\ fault.torn THEN Unreadable
               ELSE d[f]],
   raised |-> fault.at # 0]

\* the three reads of _load_cached_embeddings all succeed
Loadable(d) == \A f \in {"metadata", "texts", "index"} : d[f].kind = "written"

\* a rebuild that keeps the records a failed load had read from the cache
RebuiltKeepingRecords(d, source, fault, path) ==
  [recipe_metadata |-> IF d["metadata"].kind = "written"
                         THEN d["metadata"].content ELSE _load_recipes(source),
   recipe_texts |-> _load_texts(source),
   index |-> << _create_faiss_index(source) >>,
   disk |-> _save_embeddings(d, _load_recipes(source), _load_texts(source),
                             _create_faiss_index(source), fault).disk,
   raised |-> fault.at # 0,
   path |-> path]

\* what initialize leaves after _load_recipes, _create_faiss_index and
\* _save_embeddings on the source, on the way `path`
Rebuilt(d, source, fault, path) ==
  CHOOSE rebuilt \in
    { [recipe_metadata |-> metadata,
       recipe_texts |-> _load_texts(source),
       index |-> << _create_faiss_index(source) >>,
       disk |-> _save_embeddings(d, metadata, _load_texts(source),
                                 _create_faiss_index(source), fault).disk,
       raised |-> fault.at # 0,
       path |-> path] : metadata \in { _load_recipes(source) } } : TRUE

\* what initialize leaves after _load_cached_embeddings read every file
Loaded(d) ==
  [recipe_metadata |-> d["metadata"].content,
   recipe_texts |-> d["texts"].content,
   index |-> << d["index"].content >>,
   disk |-> d,
   raised |-> FALSE,
   path |-> "cache"]

\* RAGService.initialize up to the preload: the cache is used if it is valid
\* and loads, and the corpus is rebuilt from the source and saved otherwise
Started(d, source, fault, has) ==
  IF has.raised
    THEN [recipe_metadata |-> <<>>, recipe_texts |-> <<>>, index |-> <<>>, disk |-> d,
          raised |-> TRUE, path |-> "check"]
  ELSE IF has.value /\ Loadable(d) THEN Loaded(d)
  ELSE IF has.value THEN Rebuilt(d, source, fault, "fallback")
  ELSE Rebuilt(d, source, fault, "build")

\* the orders the index library can give equal scores
TieRules == {"ascending", "descending"}

\* position p comes before position q in the answer of the index
ComesBefore(vectors, query, ties, p, q) ==
  \/ CircularDistance(query, vectors[p]) < CircularDistance(query, vectors[q])
  \/ /\ CircularDistance(query, vectors[p]) = CircularDistance(query, vectors[q])
     /\ IF ties = "ascending" THEN p < q ELSE p > q

\* index.search(query, k) of an index whose library orders equal scores by `ties`
IndexSearch(vectors, query, ties, k) ==
  CHOOSE order \in TopK(vectors, query, 1..Len(vectors), k) :
    \A i \in 1..Len(order) :
      \A q \in 1..Len(vectors) :
        (q # order[i] /\ \A j \in 1..i : order[j] # q)
          => ComesBefore(vectors, query, ties, order[i], q)

\* the entry of the result list for a recipe and its match
ResultOf(recipe, match) ==
  [id |-> recipe.id, name |-> recipe.name, ingredient_tags |-> recipe.ingredient_tags,
   match |-> match]

\* the loop of search_recipes over the positions the index returned, from
\* position i of `order` on: the set of outcomes [results, patterns, raised];
\* a position beyond recipe_metadata raises IndexError
RECURSIVE SearchLoop(_, _, _, _, _, _, _, _)
SearchLoop(metadata, aliases, substitutions, order, limit, user_ingredients, i, acc) ==
  IF i > Len(order) \/ Len(acc.results) >= limit THEN { acc }
  ELSE IF order[i] > Len(metadata)
    THEN { [results |-> <<>>, patterns |-> acc.patterns, raised |-> TRUE] }
  ELSE UNION { SearchLoop(metadata, aliases, substitutions, order, limit,
                          user_ingredients, i + 1,
                          [results |-> Append(acc.results,
                                              ResultOf(metadata[order[i]], o.match)),
                           patterns |-> o.patterns, raised |-> FALSE]) :
               o \in _calculate_enhanced_ingredient_match(
                       metadata, aliases, substitutions, acc.patterns,
                       metadata[order[i]], user_ingredients) }

\* no request is being handled
Idle == [op |-> "idle"]

Init ==
  /\ recipe_metadata = <<>>
  /\ recipe_texts = <<>>
  /\ index = <<>>
  /\ ingredient_aliases \in AliasTables
  /\ ingredient_substitutions = SubstitutionTable
  /\ ingredient_patterns = << >>
  /\ disk = EmptyDisk
  /\ faiss_ties \in TieRules
  /\ held = {}
  /\ tasks = <<>>
  /\ call = Idle
  /\ ret = <<>>

\* RAGService.initialize: the corpus is loaded from the cache or rebuilt from
\* the source and saved, and the criticality cache is preloaded; an exception
\* of the cache check or of the save leaves initialize by raising
Initialize(source, fault) ==
  /\ call = Idle
  /\ index = <<>>
  /\ \E started \in { Started(disk, source, fault, _has_cached_embeddings(disk)) } :
       /\ started.path \in {"check", "cache"} => fault = NoFault
       /\ recipe_metadata' = started.recipe_metadata
       /\ recipe_texts' = started.recipe_texts
       /\ index' = started.index
       /\ disk' = started.disk
       /\ call' = [op |-> "initialize", source |-> source, path |-> started.path]
       /\ ret' = << [raised |-> started.raised] >>
  /\ IF ret'[1].raised
       THEN ingredient_patterns' = ingredient_patterns
       ELSE ingredient_patterns' \in preload_pattern_analysis(recipe_metadata',
                                                              ingredient_patterns)
  /\ UNCHANGED <<ingredient_aliases, ingredient_substitutions, faiss_ties, tasks, caller>>

\* RAGService._calculate_enhanced_ingredient_match on the recipe at position p
CalculateMatch(p, user_ingredients) ==
  /\ call = Idle
  /\ p \in 1..Len(recipe_metadata)
  /\ \E o \in _calculate_enhanced_ingredient_match(
                recipe_metadata, ingredient_aliases, ingredient_substitutions,
                ingredient_patterns, recipe_metadata[p], user_ingredients) :
       /\ ret' = << o.match >>
       /\ ingredient_patterns' = o.patterns
  /\ call' = [op |-> "match", recipe |-> p, user_ingredients |-> user_ingredients]
  /\ UNCHANGED <<recipe_metadata, index, ingredient_aliases, ingredient_substitutions>>
  /\ UNCHANGED <<store, caller>>

\* RAGService.search_recipes before the index exists
SearchUninitialized(query, limit, user_ingredients) ==
  /\ call = Idle
  /\ index = <<>>
  /\ call' = [op |-> "search", query |-> query, limit |-> limit,
              user_ingredients |-> user_ingredients]
  /\ ret' = << [raised |-> FALSE, results |-> <<>>] >>
  /\ UNCHANGED <<recipe_metadata, index, ingredient_aliases, ingredient_substitutions,
                 ingredient_patterns>>
  /\ UNCHANGED <<store, caller>>

\* RAGService.search_recipes with search_limit = 0: the index refuses k = 0
SearchNothing(query, limit, user_ingredients) ==
  /\ call = Idle
  /\ index # <<>>
  /\ Min(limit * 4, Len(recipe_metadata)) = 0
  /\ call' = [op |-> "search", query |-> query, limit |-> limit,
              user_ingredients |-> user_ingredients]
  /\ ret' \in { << [raised |-> TRUE, results |-> <<>>] >>,
               << [raised |-> FALSE, results |-> <<>>] >> }
  /\ UNCHANGED <<recipe_metadata, index, ingredient_aliases, ingredient_substitutions,
                 ingredient_patterns>>
  /\ UNCHANGED <<store, caller>>

\* RAGService.search_recipes
Search(query, limit, user_ingredients) ==
  /\ call = Idle
  /\ index # <<>>
  /\ Min(limit * 4, Len(recipe_metadata)) > 0
  /\ \E o \in SearchLoop(recipe_metadata, ingredient_aliases, ingredient_substitutions,
                         IndexSearch(index[1], query, faiss_ties,
                                     Min(Min(limit * 4, Len(recipe_metadata)),
                                         Len(index[1]))),
                         limit, user_ingredients, 1,
                         [results |-> <<>>, patterns |-> ingredient_patterns,
                          raised |-> FALSE]) :
       /\ ret' = << [raised |-> o.raised, results |-> o.results] >>
       /\ ingredient_patterns' = o.patterns
  /\ call' = [op |-> "search", query |-> query, limit |-> limit,
              user_ingredients |-> user_ingredients]
  /\ UNCHANGED <<recipe_metadata, index, ingredient_aliases, ingredient_substitutions>>
  /\ UNCHANGED <<store, caller>>

\* RAGService._analyze_ingredient_criticality on the similar recipes of the
\* name of the recipe at position p
AnalyzeCriticality(p) ==
  /\ call = Idle
  /\ p \in 1..Len(recipe_metadata)
  /\ call' = [op |-> "analyze", recipe |-> p,
              similar |-> _find_similar_recipes_by_name(
                            recipe_metadata, recipe_metadata[p].name, SimilarLimit)]
  /\ ret' = << _analyze_ingredient_criticality(recipe_metadata, call'.similar) >>
  /\ UNCHANGED <<recipe_metadata, index, ingredient_aliases, ingredient_substitutions,
                 ingredient_patterns>>
  /\ UNCHANGED <<store, caller>>

\* RAGService.reload_ingredient_data, called by the admin endpoint: the alias
\* and substitution tables are read again from their files, which may have
\* changed; nothing else is assigned
Reload ==
  /\ call = Idle
  /\ index # <<>>
  /\ ingredient_aliases' \in AliasTables
  /\ ingredient_substitutions' = SubstitutionTable
  /\ call' = [op |-> "reload"]
  /\ ret' = << TRUE >>
  /\ UNCHANGED <<recipe_metadata, index, ingredient_patterns>>
  /\ UNCHANGED <<store, caller>>

\* the operation returns to its caller and the service waits for the next
\* one; a startup whose initialize raised has no next one
Return ==
  /\ call # Idle
  /\ call.op = "initialize" => ~ret[1].raised
  /\ call' = Idle
  /\ ret' = <<>>
  /\ UNCHANGED <<recipe_metadata, index, ingredient_aliases, ingredient_substitutions,
                 ingredient_patterns>>
  /\ UNCHANGED <<store, caller>>

Next ==
  \/ \E source \in CorpusSources : Initialize(source, NoFault)
  \/ \E p \in 1..Len(recipe_metadata), u \in UserLists : CalculateMatch(p, u)
  \/ \E q \in Directions, limit \in 0..MaxLimit, u \in UserLists :
       SearchUninitialized(q, limit, u)
  \/ \E q \in Directions, limit \in 0..MaxLimit, u \in UserLists : SearchNothing(q, limit, u)
  \/ \E q \in Directions, limit \in 0..MaxLimit, u \in UserLists : Search(q, limit, u)
  \/ \E p \in 1..Len(recipe_metadata) : AnalyzeCriticality(p)
  \/ Reload
  \/ Return

Spec == Init /\ [][Next]_vars

\* ------------------------------------------------------------------------
\* The scorer on long tag lists
\* ------------------------------------------------------------------------

\* the longest tag list of a corpus row
MaxTags == 199

\* n copies of x
Repeat(x, n) == [i \in 1..n |-> x]

\* a corpus of seven rows of one name: the first lists egg n - 1 times and kale
\* once, five list egg, one lists nothing; kale is in 1 row of 7
LongSource(n) ==
  << [name |-> <<"s","t","e","w">>,
      ingredient_tags |-> Append(Repeat(<<"e","g","g">>, n - 1), <<"k","a","l","e">>),
      embedding |-> 0] >>
  \o Repeat([name |-> <<"s","t","e","w">>,
             ingredient_tags |-> << <<"e","g","g">> >>,
             embedding |-> 1], 5)
  \o << [name |-> <<"s","t","e","w">>, ingredient_tags |-> <<>>, embedding |-> 2] >>

\* six rows of one name; the first lists seven tags that all have
\* substitutions, from the rarest to the most frequent: "egg a" is in 1 row
\* of 6, "egg b" in 2, "egg c" in 3, the other four in 5
BrunchSource ==
  <<
    [name |-> <<"b","r","u","n","c","h">>,
     ingredient_tags |-> << <<"e","g","g"," ","a">>, <<"e","g","g"," ","b">>, <<"e","g","g"," ","c">>, <<"e","g","g"," ","d">>, <<"e","g","g"," ","e">>, <<"e","g","g"," ","f">>, <<"c","r","e","a","m">> >>,
     embedding |-> 0],
    [name |-> <<"b","r","u","n","c","h">>,
     ingredient_tags |-> << <<"e","g","g"," ","b">>, <<"e","g","g"," ","c">>, <<"e","g","g"," ","d">>, <<"e","g","g"," ","e">>, <<"e","g","g"," ","f">>, <<"c","r","e","a","m">> >>,
     embedding |-> 1],
    [name |-> <<"b","r","u","n","c","h">>,
     ingredient_tags |-> << <<"e","g","g"," ","c">>, <<"e","g","g"," ","d">>, <<"e","g","g"," ","e">>, <<"e","g","g"," ","f">>, <<"c","r","e","a","m">> >>,
     embedding |-> 2],
    [name |-> <<"b","r","u","n","c","h">>,
     ingredient_tags |-> << <<"e","g","g"," ","d">>, <<"e","g","g"," ","e">>, <<"e","g","g"," ","f">>, <<"c","r","e","a","m">> >>,
     embedding |-> 3],
    [name |-> <<"b","r","u","n","c","h">>,
     ingredient_tags |-> << <<"e","g","g"," ","d">>, <<"e","g","g"," ","e">>, <<"e","g","g"," ","f">>, <<"c","r","e","a","m">> >>,
     embedding |-> 3],
    [name |-> <<"b","r","u","n","c","h">>, ingredient_tags |-> << <<"s","a","l","t">> >>, embedding |-> 0]
  >>

ScoreSources == CorpusSources \cup { LongSource(n) : n \in 1..MaxTags } \cup { BrunchSource }

\* the user lists scored against them: none, one that matches egg, one that
\* matches neither egg nor kale, one that matches both
ScoreUserLists ==
  { <<>>,
    << <<"e","g","g","s">> >>,
    << <<"s","a","l","t">> >>,
    << <<"s","a","l","t">>, <<"e","g","g">>, <<"r","i","c","e">>, <<"k","a","l","e">> >> }

\* no search is made: the order the index gives equal scores is left out
InitScore == Init /\ faiss_ties = "ascending"

NextScore ==
  \/ \E source \in ScoreSources : Initialize(source, NoFault)
  \/ \E p \in 1..Len(recipe_metadata), u \in ScoreUserLists : CalculateMatch(p, u)
  \/ Return

SpecScore == InitScore /\ [][NextScore]_vars

\* ------------------------------------------------------------------------
\* The normalizer on its own
\* ------------------------------------------------------------------------

\* the longest ingredient string enumerated
MaxIngredientLen == 5

NormalizeAlphabet == {"a", "e", "s", "g", " ", "1"}

\* every string over an alphabet up to a length
BoundedStrings(alphabet, n) == UNION { [1..k -> alphabet] : k \in 0..n }

NormalizeExamples ==
  {
    <<"2"," ","c","u","p","s"," ","c","h","o","p","p","e","d"," ","t","o","m","a","t","o","e","s">>,
    <<"p","o","t","a","t","o","e","s">>,
    <<"d","i","s","h","e","s">>,
    <<"m","o","l","a","s","s","e","s">>,
    <<"o","n","i","o","n","s"," ","p","o","w","d","e","r">>,
    <<"h","o","t"," ","g","a","s">>,
    <<"b","e","r","r","i","e","s">>,
    <<"E","g","g","s">>,
    <<"1","/","2"," ","c","u","p"," ","a","n"," ","a","p","p","l","e">>,
    <<"s","a","l","t"," ","a","n","d"," ","p","e","p","p","e","r">>
  }

NormalizeInputs == BoundedStrings(NormalizeAlphabet, MaxIngredientLen) \cup NormalizeExamples

InitNormalize ==
  /\ recipe_metadata = <<>>
  /\ index = <<>>
  /\ ingredient_aliases = << >>
  /\ ingredient_substitutions = <<>>
  /\ ingredient_patterns = << >>
  /\ recipe_texts = <<>>
  /\ disk = EmptyDisk
  /\ faiss_ties = "ascending"
  /\ held = {}
  /\ tasks = <<>>
  /\ call \in { [op |-> "normalize", ingredient |-> x, again |-> FALSE] : x \in NormalizeInputs }
  /\ ret = <<>>

\* RAGService._normalize_ingredient on the argument of the call
Normalize ==
  /\ call.op = "normalize"
  /\ ret = <<>>
  /\ ret' = << _normalize_ingredient(call.ingredient) >>
  /\ UNCHANGED <<recipe_metadata, index, ingredient_aliases, ingredient_substitutions,
                 ingredient_patterns, call>>
  /\ UNCHANGED <<store, caller>>

\* the result of a call is normalized again
NormalizeAgain ==
  /\ call.op = "normalize"
  /\ ret # <<>>
  /\ ~call.again
  /\ call' = [op |-> "normalize", ingredient |-> ret[1], again |-> TRUE]
  /\ ret' = <<>>
  /\ UNCHANGED <<recipe_metadata, index, ingredient_aliases, ingredient_substitutions,
                 ingredient_patterns>>
  /\ UNCHANGED <<store, caller>>

NextNormalize == Normalize \/ NormalizeAgain

SpecNormalize == InitNormalize /\ [][NextNormalize]_vars

\* ------------------------------------------------------------------------
\* The matcher on its own
\* ------------------------------------------------------------------------

\* the longest string of a pair given to the matcher
MaxMatchLen == 5

\* the longest string of a two-element user list
MaxPairLen == 2

MatchAlphabet == {"a", "b"}

MatchStrings == BoundedStrings(MatchAlphabet, MaxMatchLen)

\* the user lists given to the matcher: empty, one string, or two short ones
MatchUserLists ==
  { <<>> }
  \cup { <<u>> : u \in MatchStrings }
  \cup { <<u, v>> : u, v \in BoundedStrings(MatchAlphabet, MaxPairLen) }

\* alias tables over the alphabet: one base is in its own list, one is not
MatchAliasTables ==
  { << >>,
    [base \in { <<"a","b">>, <<"b","b","b">> } |->
       IF base = <<"a","b">>
         THEN << <<"a","b">>, <<"b","a">> >>
         ELSE << <<"a","a","b">>, <<"b","b","a">> >>] }

InitMatch ==
  /\ recipe_metadata = <<>>
  /\ index = <<>>
  /\ ingredient_aliases \in MatchAliasTables
  /\ ingredient_substitutions = <<>>
  /\ ingredient_patterns = << >>
  /\ recipe_texts = <<>>
  /\ disk = EmptyDisk
  /\ faiss_ties = "ascending"
  /\ held = {}
  /\ tasks = <<>>
  /\ call \in { [op |-> "ingredients_match", recipe_ingredient |-> r, user_ingredients |-> us] :
                r \in MatchStrings, us \in MatchUserLists }
  /\ ret = <<>>

\* RAGService._ingredients_match on the arguments of the call
IngredientsMatch ==
  /\ call.op = "ingredients_match"
  /\ ret = <<>>
  /\ ret' = << _ingredients_match(ingredient_aliases, call.recipe_ingredient,
                                  call.user_ingredients) >>
  /\ UNCHANGED <<recipe_metadata, index, ingredient_aliases, ingredient_substitutions,
                 ingredient_patterns, call>>
  /\ UNCHANGED <<store, caller>>

NextMatch == IngredientsMatch

SpecMatch == InitMatch /\ [][NextMatch]_vars

\* ------------------------------------------------------------------------
\* The similar-name finder on its own
\* ------------------------------------------------------------------------

\* the largest limit the finder is asked for, besides the one the service uses
MaxSimilar == 3

\* the names the finder is asked for: names of the corpora, one in capitals,
\* names that share one word of four and three words of ten with a recipe,
\* a name of no word
SimilarNames ==
  { <<"s","t","e","w">>, <<"f","i","s","h"," ","s","t","e","w"," ","p","i","e">>, <<"F","I","S","H"," ","S","t","e","w">>, <<"h","o","t"," ","f","i","s","h"," ","s","t","e","w"," ","n","o","w">>,
    <<"a"," ","s","t","e","w"," ","b"," ","c">>, <<"t","o","m","a","t","o"," ","b","a","s","i","l"," ","s","o","u","p"," ","a"," ","b"," ","c"," ","d"," ","e"," ","f"," ","g">>, <<"t","o","m","a","t","o"," ","s","o","u","p">>,
    <<"o","m","e","l","e","t">>, <<"r","i","c","e"," ","p","i","e">>, <<>>, <<" "," ">> }

InitSimilar ==
  /\ recipe_metadata \in { _load_recipes(source) : source \in CorpusSources }
  /\ index = <<>>
  /\ ingredient_aliases = << >>
  /\ ingredient_substitutions = <<>>
  /\ ingredient_patterns = << >>
  /\ recipe_texts = <<>>
  /\ disk = EmptyDisk
  /\ faiss_ties = "ascending"
  /\ held = {}
  /\ tasks = <<>>
  /\ call \in { [op |-> "find_similar", recipe_name |-> n, limit |-> l] :
                n \in SimilarNames, l \in (0..MaxSimilar) \cup {SimilarLimit} }
  /\ ret = <<>>

\* RAGService._find_similar_recipes_by_name on the arguments of the call; the
\* recipes returned are given by their positions in recipe_metadata
FindSimilar ==
  /\ call.op = "find_similar"
  /\ ret = <<>>
  /\ ret' = << _find_similar_recipes_by_name(recipe_metadata, call.recipe_name, call.limit) >>
  /\ UNCHANGED <<recipe_metadata, index, ingredient_aliases, ingredient_substitutions,
                 ingredient_patterns, call>>
  /\ UNCHANGED <<store, caller>>

NextSimilar == FindSimilar

SpecSimilar == InitSimilar /\ [][NextSimilar]_vars

\* ------------------------------------------------------------------------
\* Searches after other searches
\* ------------------------------------------------------------------------

\* a recipe whose name and tag concatenate to the cache key of another name
\* and tag: "pie" + "_" + "a_eggs" = "pie_a" + "_" + "eggs"
PieSource ==
  <<
    [name |-> <<"p","i","e">>, ingredient_tags |-> << <<"a","_","e","g","g","s">> >>, embedding |-> 0],
    [name |-> <<"p","i","e","_","a">>, ingredient_tags |-> << <<"e","g","g","s">> >>, embedding |-> 1],
    [name |-> <<"p","i","e","_","a">>, ingredient_tags |-> << <<"s","a","l","t">> >>, embedding |-> 2]
  >>

\* a name of no word, and a name that starts with it and the key separator:
\* " " + "_" + "a_egg" = " _a" + "_" + "egg"
BlankSource ==
  <<
    [name |-> <<" ">>, ingredient_tags |-> << <<"a","_","e","g","g">> >>, embedding |-> 0],
    [name |-> <<" ","_","a">>, ingredient_tags |-> << <<"e","g","g">> >>, embedding |-> 2]
  >>

RepeatSources == { PieSource, OmeletSource, BlankSource }

\* the ingredient lists of the requests
RepeatUserLists == { <<>>, << <<"r","i","c","e">> >>, << <<"e","g","g","s">> >> }

NextRepeat ==
  \/ \E source \in RepeatSources : Initialize(source, NoFault)
  \/ \E q \in Directions, limit \in 1..MaxLimit, u \in RepeatUserLists : Search(q, limit, u)
  \/ Return

SpecRepeat == Init /\ [][NextRepeat]_vars

\* ------------------------------------------------------------------------
\* Startups over a data directory that persists
\* ------------------------------------------------------------------------

\* the contents recipes_small.csv has at a startup: two rows, or three
StoreSources == { SaladSource, PieSource }

\* a config that parses to null, a number or a boolean
ScalarConfig == [shape |-> "scalar"]

\* a config that parses to a list, or to a string that does not spell the keys
ListConfig == [shape |-> "list"]

\* a config that parses to an object without num_recipes and embedding_dim
PartialConfig == [shape |-> "object", keys |-> {"model_name"}, num_recipes |-> 0]

\* what a file of the data directory can become outside the service: deleted
\* or overwritten with something else
Damages(f) ==
  { Absent, Unreadable }
  \cup (IF f = "config"
          THEN { FileOf(ScalarConfig), FileOf(ListConfig), FileOf(PartialConfig) }
          ELSE {})

InitStore ==
  /\ recipe_metadata = <<>>
  /\ recipe_texts = <<>>
  /\ index = <<>>
  /\ ingredient_aliases = << >>
  /\ ingredient_substitutions = SubstitutionTable
  /\ ingredient_patterns = << >>
  /\ disk = EmptyDisk
  /\ faiss_ties \in TieRules
  /\ held = {}
  /\ tasks = <<>>
  /\ call = Idle
  /\ ret = <<>>

\* the process ends, after a startup that failed or while it waits for a
\* request, and a new one is constructed by RAGService(): what initialize
\* and the requests assigned is gone, the data directory stays
Restart ==
  /\ \/ call = Idle /\ index # <<>>
     \/ call.op = "initialize" /\ ret # <<>> /\ ret[1].raised
  /\ recipe_metadata' = <<>>
  /\ recipe_texts' = <<>>
  /\ index' = <<>>
  /\ ingredient_patterns' = << >>
  /\ held' = {}
  /\ tasks' = <<>>
  /\ call' = Idle
  /\ ret' = <<>>
  /\ UNCHANGED <<ingredient_aliases, ingredient_substitutions, disk, faiss_ties>>

\* a file of the data directory is deleted or overwritten while no process
\* is running
DamageFile(f, file) ==
  /\ call = Idle
  /\ index = <<>>
  /\ disk[f] # file
  /\ disk' = [disk EXCEPT ![f] = file]
  /\ UNCHANGED <<recipe_metadata, index, ingredient_aliases, ingredient_substitutions,
                 ingredient_patterns, call, ret, recipe_texts, faiss_ties, tasks, caller>>

\* RAGService._has_cached_embeddings on the data directory
HasCachedEmbeddings ==
  /\ call = Idle
  /\ index = <<>>
  /\ call' = [op |-> "has_cached_embeddings"]
  /\ ret' = << _has_cached_embeddings(disk) >>
  /\ UNCHANGED <<recipe_metadata, index, ingredient_aliases, ingredient_substitutions,
                 ingredient_patterns>>
  /\ UNCHANGED <<store, caller>>

NextStore ==
  \/ \E source \in StoreSources, fault \in SaveFaults : Initialize(source, fault)
  \/ Restart
  \/ \E f \in Artifacts : \E file \in Damages(f) : DamageFile(f, file)
  \/ HasCachedEmbeddings
  \/ \E q \in Directions : Search(q, MaxLimit, <<>>)
  \/ Return

SpecStore == InitStore /\ [][NextStore]_vars

\* ------------------------------------------------------------------------
\* Callers that keep what the accessors return
\* ------------------------------------------------------------------------

AccessSources == { SaladSource, PieSource }

\* a reference to the record object at a position of recipe_metadata
RecordAt(p) == [of |-> "record", at |-> p]

\* a reference to the ingredient_tags list of the record at a position
TagsAt(p) == [of |-> "tags", at |-> p]

\* a list of the caller's own, of n items
ListOf(n) == [of |-> "list", at |-> n]

\* the name a caller gives a record it holds
CallerName == <<"m","i","n","e">>

\* RAGService.get_all_recipes: list.copy() makes a new list of the same record
\* objects
GetAll ==
  /\ call = Idle
  /\ index # <<>>
  /\ call' = [op |-> "get_all"]
  /\ ret' = << recipe_metadata >>
  /\ held' = { r \in held : r.of # "list" }
             \cup { ListOf(Len(recipe_metadata)) }
             \cup { RecordAt(p) : p \in 1..Len(recipe_metadata) }
  /\ UNCHANGED <<recipe_metadata, index, ingredient_aliases, ingredient_substitutions,
                 ingredient_patterns, store>>

\* RAGService.get_recipe_by_id: dict.copy() of the first record of the id
\* makes a new record of the same field objects, or None is returned
GetById(recipe_id) ==
  /\ call = Idle
  /\ index # <<>>
  /\ call' = [op |-> "get_by_id", recipe_id |-> recipe_id]
  /\ LET with_id == { p \in 1..Len(recipe_metadata) : recipe_metadata[p].id = recipe_id }
         first == CHOOSE p \in with_id : \A q \in with_id : p <= q
     IN  IF with_id = {}
           THEN /\ ret' = << [found |-> FALSE] >>
                /\ held' = held
           ELSE /\ ret' = << [found |-> TRUE, recipe |-> recipe_metadata[first]] >>
                /\ held' = held \cup { TagsAt(first) }
  /\ UNCHANGED <<recipe_metadata, index, ingredient_aliases, ingredient_substitutions,
                 ingredient_patterns, store>>

\* the caller drops the last item of the list get_all_recipes returned
PopList ==
  /\ call = Idle
  /\ \E r \in held :
       /\ r.of = "list"
       /\ r.at > 0
       /\ held' = (held \ {r}) \cup { ListOf(r.at - 1) }
  /\ UNCHANGED <<recipe_metadata, index, ingredient_aliases, ingredient_substitutions,
                 ingredient_patterns, call, ret, store>>

\* the caller assigns the name of a record it got from get_all_recipes
RenameRecord(p) ==
  /\ call = Idle
  /\ RecordAt(p) \in held
  /\ recipe_metadata[p].name # CallerName
  /\ recipe_metadata' = [recipe_metadata EXCEPT ![p].name = CallerName]
  /\ UNCHANGED <<index, ingredient_aliases, ingredient_substitutions,
                 ingredient_patterns, call, ret, store, caller>>

\* the caller clears the ingredient_tags list of a record it got from
\* get_all_recipes or of a copy it got from get_recipe_by_id
ClearTags(p) ==
  /\ call = Idle
  /\ RecordAt(p) \in held \/ TagsAt(p) \in held
  /\ recipe_metadata[p].ingredient_tags # <<>>
  /\ recipe_metadata' = [recipe_metadata EXCEPT ![p].ingredient_tags = <<>>]
  /\ UNCHANGED <<index, ingredient_aliases, ingredient_substitutions,
                 ingredient_patterns, call, ret, store, caller>>

NextAccess ==
  \/ \E source \in AccessSources : Initialize(source, NoFault)
  \/ GetAll
  \/ \E recipe_id \in 1..(Len(recipe_metadata) + 1) : GetById(recipe_id)
  \/ PopList
  \/ \E p \in 1..Len(recipe_metadata) : RenameRecord(p)
  \/ \E p \in 1..Len(recipe_metadata) : ClearTags(p)
  \/ Return

SpecAccess == InitStore /\ [][NextAccess]_vars

\* ------------------------------------------------------------------------
\* Searches that run concurrently
\* ------------------------------------------------------------------------

\* the most search_recipes coroutines that have not returned at one time
MaxTasks == 2

\* two pairs of recipes whose name and tag concatenate to one cache key:
\* "pie" + "_" + "a_eggs" = "pie_a" + "_" + "eggs" and
\* "tart" + "_" + "b_eggs" = "tart_b" + "_" + "eggs";
\* one recipe of each pair is nearest to direction 0, the other to direction 2
TartSource ==
  <<
    [name |-> <<"p","i","e">>, ingredient_tags |-> << <<"a","_","e","g","g","s">> >>, embedding |-> 0],
    [name |-> <<"p","i","e","_","a">>, ingredient_tags |-> << <<"e","g","g","s">> >>, embedding |-> 2],
    [name |-> <<"p","i","e","_","a">>, ingredient_tags |-> << <<"s","a","l","t">> >>, embedding |-> 1],
    [name |-> <<"t","a","r","t">>, ingredient_tags |-> << <<"b","_","e","g","g","s">> >>, embedding |-> 2],
    [name |-> <<"t","a","r","t","_","b">>, ingredient_tags |-> << <<"e","g","g","s">> >>, embedding |-> 0],
    [name |-> <<"t","a","r","t","_","b">>, ingredient_tags |-> << <<"s","a","l","t">> >>, embedding |-> 3]
  >>

ConcurrentSources == { TartSource, SaladSource }

\* the queries of the concurrent requests, as the directions they encode to
ConcurrentQueries == {0, 2}

\* the ingredient lists of the concurrent requests
ConcurrentUserLists == { << <<"r","i","c","e">> >>, << <<"e","g","g","s">> >> }

\* search_recipes is called while the index exists: the coroutine runs to the
\* await of the encoding of its query and is suspended there.  The first of
\* the coroutines in flight records the cache it was called with.
BeginSearch(query, limit, user_ingredients) ==
  /\ call = Idle \/ call.op = "searches"
  /\ index # <<>>
  /\ Min(limit * 4, Len(recipe_metadata)) > 0
  /\ Len(tasks) < MaxTasks
  /\ tasks' = Append(tasks, [query |-> query, limit |-> limit,
                             user_ingredients |-> user_ingredients,
                             at |-> "encode", order |-> <<>>, i |-> 0,
                             match |-> <<>>, results |-> <<>>, raised |-> FALSE])
  /\ call' = IF call = Idle
               THEN [op |-> "searches", patterns |-> ingredient_patterns]
               ELSE call
  /\ ret' = <<>>
  /\ UNCHANGED <<recipe_metadata, index, ingredient_aliases, ingredient_substitutions,
                 ingredient_patterns, recipe_texts, disk, faiss_ties, caller>>

\* the loop of search_recipes from the top of its round i: the coroutine
\* returns when the positions the index gave are used up, raises IndexError
\* at a position beyond recipe_metadata, or computes the match of the recipe
\* and is suspended at the await of its health score
EnterRound(task, i) ==
  IF i > Len(task.order)
    THEN { [task |-> [task EXCEPT !.at = "returned", !.i = i],
            patterns |-> ingredient_patterns] }
  ELSE IF task.order[i] > Len(recipe_metadata)
    THEN { [task |-> [task EXCEPT !.at = "returned", !.i = i, !.results = <<>>,
                                  !.raised = TRUE],
            patterns |-> ingredient_patterns] }
  ELSE { [task |-> [task EXCEPT !.at = "health", !.i = i, !.match = << o.match >>],
          patterns |-> o.patterns] :
         o \in _calculate_enhanced_ingredient_match(
                 recipe_metadata, ingredient_aliases, ingredient_substitutions,
                 ingredient_patterns, recipe_metadata[task.order[i]],
                 task.user_ingredients) }

\* search_recipes from the await a coroutine is suspended at to its next
\* await or its return: after the encoding the index is searched and the loop
\* is entered; after a health score the recipe is appended and the loop ends
\* at the limit or goes to its next round
Continued(task) ==
  IF task.at = "encode"
    THEN EnterRound(
           [task EXCEPT !.order = IndexSearch(index[1], task.query, faiss_ties,
                                              Min(Min(task.limit * 4, Len(recipe_metadata)),
                                                  Len(index[1])))],
           1)
    ELSE LET appended ==
               [task EXCEPT !.results = Append(@, ResultOf(recipe_metadata[task.order[task.i]],
                                                           task.match[1])),
                            !.match = <<>>]
         IN  IF Len(appended.results) >= task.limit
               THEN { [task |-> [appended EXCEPT !.at = "returned"],
                       patterns |-> ingredient_patterns] }
               ELSE EnterRound(appended, task.i + 1)

\* the event loop resumes a suspended coroutine, which runs until it is
\* suspended again or returns; no other coroutine runs meanwhile
Resume(t) ==
  /\ call.op = "searches"
  /\ t \in 1..Len(tasks)
  /\ tasks[t].at # "returned"
  /\ \E c \in Continued(tasks[t]) :
       /\ tasks' = [tasks EXCEPT ![t] = c.task]
       /\ ingredient_patterns' = c.patterns
  /\ UNCHANGED <<recipe_metadata, index, ingredient_aliases, ingredient_substitutions,
                 call, ret, recipe_texts, disk, faiss_ties, caller>>

\* every coroutine has returned and the responses are sent
Respond ==
  /\ call.op = "searches"
  /\ \A t \in 1..Len(tasks) : tasks[t].at = "returned"
  /\ tasks' = <<>>
  /\ call' = Idle
  /\ ret' = <<>>
  /\ UNCHANGED <<recipe_metadata, index, ingredient_aliases, ingredient_substitutions,
                 ingredient_patterns, recipe_texts, disk, faiss_ties, caller>>

NextConcurrent ==
  \/ \E source \in ConcurrentSources : Initialize(source, NoFault)
  \/ call.op = "initialize" /\ Return
  \/ \E q \in ConcurrentQueries, limit \in 1..MaxLimit, u \in ConcurrentUserLists :
       BeginSearch(q, limit, u)
  \/ \E t \in 1..MaxTasks : Resume(t)
  \/ Respond

SpecConcurrent == InitScore /\ [][NextConcurrent]_vars

\* ------------------------------------------------------------------------
\* The two soups of the specification's scenario
\* ------------------------------------------------------------------------

ScenarioSource ==
  <<
    [name |-> <<"T","o","m","a","t","o"," ","S","o","u","p">>,
     ingredient_tags |-> << <<"t","o","m","a","t","o">>, <<"o","n","i","o","n">>, <<"g","a","r","l","i","c">>, <<"c","r","e","a","m">> >>,
     embedding |-> 0],
    [name |-> <<"T","o","m","a","t","o"," ","B","a","s","i","l"," ","S","o","u","p">>,
     ingredient_tags |-> << <<"t","o","m","a","t","o">>, <<"o","n","i","o","n">>, <<"b","a","s","i","l">> >>,
     embedding |-> 1]
  >>

\* the ingredient lists of the requests: the scenario's, and three others
ScenarioUserLists ==
  { << <<"t","o","m","a","t","o">>, <<"o","n","i","o","n">> >>, << <<"b","a","s","i","l">> >>, << <<"c","r","e","a","m">> >>, <<>> }

NextScenario ==
  \/ Initialize(ScenarioSource, NoFault)
  \/ \E p \in 1..Len(recipe_metadata), u \in ScenarioUserLists : CalculateMatch(p, u)
  \/ \E q \in Directions, limit \in 1..MaxLimit, u \in ScenarioUserLists : Search(q, limit, u)
  \/ \E p \in 1..Len(recipe_metadata) : AnalyzeCriticality(p)
  \/ Return

SpecScenario == Init /\ [][NextScenario]_vars

\* ------------------------------------------------------------------------
\* The two copies of the service, each over its own data directory
\* ------------------------------------------------------------------------

\* required_files of the ai_service copy: the four files its _save_embeddings
\* writes and embeddings.npy, which no line of the copy writes
AiFiles == Artifacts \cup {"embeddings"}

\* the data directory of the ai_service copy before anything is saved
EmptyAiDisk == [f \in AiFiles |-> Absent]

\* _has_cached_embeddings of the ai_service copy: the value returned, or
\* raised = TRUE for an exception that its except clause does not catch
ai_has_cached_embeddings(d) ==
  IF \E f \in AiFiles : d[f].kind = "absent" THEN [raised |-> FALSE, value |-> FALSE]
  ELSE IF d["config"].kind = "unreadable" THEN [raised |-> FALSE, value |-> FALSE]
  ELSE ConfigHasKeys(d["config"].content)

\* the validity check of the copy that owns the data directory
CacheCheckOf(d) ==
  IF DOMAIN d = AiFiles THEN ai_has_cached_embeddings(d) ELSE _has_cached_embeddings(d)

\* initialize of the ai_service copy: the cache is used if it is valid and
\* loads, and the corpus is rebuilt from the source and saved otherwise;
\* _save_embeddings writes the metadata, the texts, the index and the config
\* and leaves every other file as it was; nothing is preloaded
AiInitialize(source, fault) ==
  /\ call = Idle
  /\ index = <<>>
  /\ DOMAIN disk = AiFiles
  /\ \E started \in { Started(disk, source, fault, ai_has_cached_embeddings(disk)) } :
       /\ started.path \in {"check", "cache"} => fault = NoFault
       /\ recipe_metadata' = started.recipe_metadata
       /\ recipe_texts' = started.recipe_texts
       /\ index' = started.index
       /\ disk' = [f \in AiFiles |-> IF f \in Artifacts THEN started.disk[f] ELSE disk[f]]
       /\ call' = [op |-> "initialize", source |-> source, path |-> started.path]
       /\ ret' = << [raised |-> started.raised] >>
  /\ UNCHANGED <<ingredient_aliases, ingredient_substitutions, ingredient_patterns,
                 faiss_ties, tasks, caller>>

\* a process of either copy is constructed over its empty data directory
InitCopies ==
  /\ recipe_metadata = <<>>
  /\ recipe_texts = <<>>
  /\ index = <<>>
  /\ ingredient_aliases = << >>
  /\ ingredient_substitutions = SubstitutionTable
  /\ ingredient_patterns = << >>
  /\ disk \in { EmptyDisk, EmptyAiDisk }
  /\ faiss_ties \in TieRules
  /\ held = {}
  /\ tasks = <<>>
  /\ call = Idle
  /\ ret = <<>>

NextCopies ==
  \/ \E source \in StoreSources, fault \in SaveFaults :
       DOMAIN disk = Artifacts /\ Initialize(source, fault)
  \/ \E source \in StoreSources, fault \in SaveFaults : AiInitialize(source, fault)
  \/ Restart
  \/ \E f \in DOMAIN disk : \E file \in Damages(f) : DamageFile(f, file)
  \/ Return

SpecCopies == InitCopies /\ [][NextCopies]_vars

\* ------------------------------------------------------------------------
\* Properties of the match scorer
\* ------------------------------------------------------------------------

\* a call of the match scorer has returned its MatchResult in ret[1]
Scored == call.op = "match" /\ ret # <<>>

\* the sum of a sequence of numbers
RECURSIVE SeqSum(_)
SeqSum(xs) == IF xs = <<>> THEN 0 ELSE Head(xs) + SeqSum(Tail(xs))

\* the weight the specification gives a tier
TierWeight(tier) ==
  CASE tier = "critical"  -> WeightCritical
    [] tier = "important" -> WeightImportant
    [] tier = "optional"  -> WeightOptional
    [] OTHER              -> WeightRare

\* the weight of every tag of a recipe under the tier the analyzer gives it
TagWeights(recipe) ==
  [i \in 1..Len(recipe.ingredient_tags) |->
     TierWeight(_get_pattern_based_criticality(
                  recipe_metadata, ingredient_patterns, recipe.name,
                  recipe.ingredient_tags[i]).tier)]

\* whether the matcher matches tag i of a recipe against a user list
TagMatched(recipe, user_ingredients, i) ==
  _ingredients_match(ingredient_aliases, _normalize_ingredient(recipe.ingredient_tags[i]),
                     NormalizeAll(user_ingredients))

\* the weights of the matched tags, 0 for the others
MatchedWeights(recipe, user_ingredients, weights) ==
  [i \in 1..Len(weights) |-> IF TagMatched(recipe, user_ingredients, i) THEN weights[i] ELSE 0]

\* 100 * (sum of the weights of the matched tags) / (sum of the weights of all)
SpecifiedWeighted(recipe, user_ingredients, weights) ==
  RoundedPercent(SeqSum(MatchedWeights(recipe, user_ingredients, weights)), SeqSum(weights))

\* C1: for a recipe with at least one tag and a non-empty user list, the
\* weighted_percentage of the match scorer is 100 * (sum of the tier weights of
\* the matched ingredients) / (sum of the tier weights of all the recipe's
\* ingredients), with weights 4, 3, 2, 1, rounded to one decimal.
C1_WeightedIsMatchedOverAll ==
  (/\ Scored
   /\ recipe_metadata[call.recipe].ingredient_tags # <<>>
   /\ call.user_ingredients # <<>>)
  => ret[1].weighted_percentage
       \in SpecifiedWeighted(recipe_metadata[call.recipe], call.user_ingredients,
                             TagWeights(recipe_metadata[call.recipe]))

\* C2: the weighted_percentage of the match scorer is 0 if and only if the
\* user list is empty or no ingredient of the recipe is matched.
C2_WeightedZeroIffNothingMatched ==
  Scored =>
    (ret[1].weighted_percentage = 0
       <=> (call.user_ingredients = <<>> \/ ret[1].matches = 0))

\* C3 as stated: the weighted_percentage lies in [0, 100] and is 100 if and
\* only if every ingredient tag of the recipe is matched.
C3_WeightedFullIffAllMatched ==
  Scored =>
    /\ ret[1].weighted_percentage \in 0..1000
    /\ (ret[1].weighted_percentage = 1000 <=> ret[1].matches = ret[1].total)

\* C3, amended: the weighted_percentage lies in [0, 100]; for a recipe with at
\* least one and fewer than 200 ingredient tags it is 100 if and only if every
\* tag is matched, and for a recipe with no tags it is 0.
C3_WeightedFullIffAllMatchedOfTagged ==
  Scored =>
    /\ ret[1].weighted_percentage \in 0..1000
    /\ (ret[1].total \in 1..199
          => (ret[1].weighted_percentage = 1000 <=> ret[1].matches = ret[1].total))
    /\ (ret[1].total = 0 => ret[1].weighted_percentage = 0)

\* a long recipe is scored with one tag missing and stays below 100
C3_Witness ==
  /\ Scored
  /\ ret[1].total > 100
  /\ ret[1].matches = ret[1].total - 1
  /\ ret[1].weighted_percentage < 1000

\* C5: in every MatchResult, those of an empty user list and of a recipe with
\* no tags included, hasAllCriticalIngredients is true exactly when the
\* critical_missing list is empty.
C5_AllCriticalIffNoneMissing ==
  Scored => (ret[1].hasAllCriticalIngredients <=> ret[1].critical_missing = <<>>)

\* ------------------------------------------------------------------------
\* Properties of search
\* ------------------------------------------------------------------------

\* the elements of a list
Range(xs) == { xs[i] : i \in 1..Len(xs) }

\* a search over an initialised corpus with an empty user list has returned
SearchedWithoutIngredients ==
  /\ call.op = "search"
  /\ call.user_ingredients = <<>>
  /\ index # <<>>
  /\ recipe_metadata # <<>>
  /\ ret # <<>>

\* C4: search with an empty user list over a non-empty, initialised corpus
\* returns at most `limit` results, each with percentage 0, weighted_percentage
\* 0 and a missing list that contains every ingredient tag of its recipe.
C4_SearchWithoutIngredients ==
  SearchedWithoutIngredients =>
    /\ Len(ret[1].results) <= call.limit
    /\ \A i \in 1..Len(ret[1].results) :
         /\ ret[1].results[i].match.percentage = 0
         /\ ret[1].results[i].match.weighted_percentage = 0
         /\ Range(ret[1].results[i].ingredient_tags)
              \subseteq Range(ret[1].results[i].match.missing)

\* such a search returns as many results as its limit, one of a recipe with tags
C4_Witness ==
  /\ SearchedWithoutIngredients
  /\ call.limit = 2
  /\ Len(ret[1].results) = 2
  /\ \E i \in 1..2 : ret[1].results[i].ingredient_tags # <<>>

\* ------------------------------------------------------------------------
\* Properties of the criticality analyzer
\* ------------------------------------------------------------------------

\* how many of the similar recipes contain a normalized ingredient
RecipesContaining(similar, normalized) ==
  Cardinality({ k \in 1..Len(similar) :
                  CountInRecipe(recipe_metadata[similar[k]].ingredient_tags, normalized) > 0 })

\* C10: the analyzer gives each normalized ingredient the tier of frequency =
\* (number of the similar recipes that contain it) / (number of similar
\* recipes): critical from 0.8, important from 0.5, optional from 0.2, rare
\* below; a recipe that lists the ingredient more than once is counted once.
C10_TierOfRecipeFrequency ==
  (call.op = "analyze" /\ ret # <<>>) =>
    \A normalized \in DOMAIN ret[1] :
      ret[1][normalized]
        = TierOfFrequency(RecipesContaining(call.similar, normalized), Len(call.similar))

\* ------------------------------------------------------------------------
\* Properties of the matcher
\* ------------------------------------------------------------------------

\* a call of the matcher has returned its answer in ret[1]
Matched == call.op = "ingredients_match" /\ ret # <<>>

\* r and u are in the list of one entry of the alias table
SameAliasGroup(r, u) ==
  \E base \in DOMAIN ingredient_aliases :
    InList(r, ingredient_aliases[base]) /\ InList(u, ingredient_aliases[base])

\* C6: matches(r, U) is false whenever r is empty or U is empty; otherwise it
\* is true if and only if some u in U equals r, contains r, is contained in r,
\* has a similarity ratio with r of at least 0.8, or is in the same alias
\* group as r.
C6_MatchesIsTheDisjunction ==
  Matched =>
    ret[1] = (/\ call.recipe_ingredient # <<>>
              /\ call.user_ingredients # <<>>
              /\ \E u \in Range(call.user_ingredients) :
                   \/ u = call.recipe_ingredient
                   \/ Contains(u, call.recipe_ingredient)
                   \/ Contains(call.recipe_ingredient, u)
                   \/ FuzzyMatch(call.recipe_ingredient, u)
                   \/ SameAliasGroup(call.recipe_ingredient, u))

\* the matcher answers true for a pair that only the alias table relates, and
\* the second user ingredient is the one that matches
C6_Witness ==
  /\ Matched
  /\ ret[1]
  /\ Len(call.user_ingredients) = 2
  /\ call.user_ingredients[1] # call.user_ingredients[2]
  /\ call.recipe_ingredient \notin Range(call.user_ingredients)
  /\ \A u \in Range(call.user_ingredients) :
       /\ ~Contains(u, call.recipe_ingredient)
       /\ ~Contains(call.recipe_ingredient, u)
       /\ ~FuzzyMatch(call.recipe_ingredient, u)
  /\ ~SameAliasGroup(call.recipe_ingredient, call.user_ingredients[1])

\* C7: the similarity is symmetric, similarity(a, b) = similarity(b, a), so the
\* 0.8 check gives the same answer whichever of the two strings is the recipe
\* ingredient.
C7_SimilarityIsSymmetric ==
  (Matched /\ Len(call.user_ingredients) = 1) =>
    /\ Ratio(call.recipe_ingredient, call.user_ingredients[1])
         = Ratio(call.user_ingredients[1], call.recipe_ingredient)
    /\ FuzzyMatch(call.recipe_ingredient, call.user_ingredients[1])
         <=> FuzzyMatch(call.user_ingredients[1], call.recipe_ingredient)

\* ------------------------------------------------------------------------
\* Properties of the normalizer
\* ------------------------------------------------------------------------

\* C8: normalisation is idempotent: normalize(normalize(x)) = normalize(x) for
\* every string x.
C8_NormalizeIsIdempotent ==
  (call.op = "normalize" /\ call.again /\ ret # <<>>) => ret[1] = call.ingredient

\* the words left of a string before the plural rule
WordsBeforePlural(ingredient) ==
  TruncateAtConjunction(
    RemoveArticle(FilterSeq(Split(RemoveNumbers(Strip(Lower(ingredient)))), quantity_words)))

\* the plural rule applied to each of the words left
PluralOfEachWord(ingredient) ==
  IF ingredient = <<>> THEN <<>>
  ELSE Join([i \in 1..Len(WordsBeforePlural(ingredient)) |->
               ReducePlural(WordsBeforePlural(ingredient)[i])])

\* C9: after digits and stoplist words are removed, normalize applies the
\* plural rule to each word (ies -> y, oes loses es, ches/shes/xes/zes stay,
\* otherwise a trailing s goes from a word longer than 3 characters); and
\* "2 cups chopped tomatoes", "potatoes" and "dishes" give "tomato", "potato"
\* and "dishes".
C9_PluralRulePerWord ==
  /\ (call.op = "normalize" /\ ret # <<>>) => ret[1] = PluralOfEachWord(call.ingredient)
  /\ _normalize_ingredient(<<"2"," ","c","u","p","s"," ","c","h","o","p","p","e","d"," ",
                             "t","o","m","a","t","o","e","s">>)
       = <<"t","o","m","a","t","o">>
  /\ _normalize_ingredient(<<"p","o","t","a","t","o","e","s">>) = <<"p","o","t","a","t","o">>
  /\ _normalize_ingredient(<<"d","i","s","h","e","s">>) = <<"d","i","s","h","e","s">>

\* ------------------------------------------------------------------------
\* Properties of the similar-name finder
\* ------------------------------------------------------------------------

\* a call of the finder has returned the positions of its recipes in ret[1]
Found == call.op = "find_similar" /\ ret # <<>>

\* the lowercase words of a name, read off its characters: a word starts at a
\* character that is no whitespace and follows whitespace or nothing
LowercaseWords(name) ==
  LET low == Lower(name)
      starts == { i \in 1..Len(low) :
                    low[i] \notin Whitespace /\ (i = 1 \/ low[i - 1] \in Whitespace) }
      stop(i) == CHOOSE j \in i..Len(low) :
                   /\ \A k \in i..j : low[k] \notin Whitespace
                   /\ (j = Len(low) \/ low[j + 1] \in Whitespace)
  IN  { SubSeq(low, i, stop(i)) : i \in starts }

\* |common| and max(|A|, |B|) of the word sets of two names
CommonWords(name, other) == Cardinality(LowercaseWords(name) \cap LowercaseWords(other))

LargerWordSet(name, other) ==
  Max(Cardinality(LowercaseWords(name)), Cardinality(LowercaseWords(other)))

\* the overlap of the recipe at p with the name is strictly greater than 0.3
OverlapExceeds(name, p) ==
  /\ LargerWordSet(name, recipe_metadata[p].name) > 0
  /\ 10 * CommonWords(name, recipe_metadata[p].name)
       > 3 * LargerWordSet(name, recipe_metadata[p].name)

\* the recipe at p is to come before the one at q: its overlap is higher, or
\* the same and p is earlier in the corpus
OverlapBefore(name, p, q) ==
  LET cp == CommonWords(name, recipe_metadata[p].name)
      mp == LargerWordSet(name, recipe_metadata[p].name)
      cq == CommonWords(name, recipe_metadata[q].name)
      mq == LargerWordSet(name, recipe_metadata[q].name)
  IN  \/ cp * mq > cq * mp
      \/ (cp * mq = cq * mp /\ p < q)

Preloaded == call.op = "initialize" /\ ret # <<>> /\ ~ret[1].raised

\* the raw ingredient tags of the corpus
CorpusTags ==
  UNION { Range(recipe_metadata[p].ingredient_tags) : p \in 1..Len(recipe_metadata) }

\* C12: preloading the criticality cache never changes a result: for every
\* recipe name and every raw ingredient tag of the corpus, the tier a lookup
\* returns after the preload is the tier the on-demand computation returns
\* for the pair with an empty cache.
C12_PreloadChangesNoTier ==
  Preloaded =>
    \A p \in 1..Len(recipe_metadata) :
      \A tag \in CorpusTags :
        _get_pattern_based_criticality(recipe_metadata, ingredient_patterns,
                                       recipe_metadata[p].name, tag).tier
          = _get_pattern_based_criticality(recipe_metadata, << >>,
                                           recipe_metadata[p].name, tag).tier

\* the answers search gives to a request when no search was executed before
\* it: the cache is as one of the preloads of initialize leaves it
FreshAnswers(query, limit, user_ingredients) ==
  { [raised |-> o.raised, results |-> o.results] :
      o \in UNION { SearchLoop(recipe_metadata, ingredient_aliases, ingredient_substitutions,
                               IndexSearch(index[1], query, faiss_ties,
                                           Min(Min(limit * 4, Len(recipe_metadata)),
                                               Len(index[1]))),
                               limit, user_ingredients, 1,
                               [results |-> <<>>, patterns |-> preloaded, raised |-> FALSE]) :
                    preloaded \in preload_pattern_analysis(recipe_metadata, << >>) } }

\* C13: for a fixed corpus, query and user ingredients, search returns the
\* same ordered result list with the same match results on every call,
\* whatever other searches were executed before or between: every answer is
\* an answer the request gets when no search was executed before it.
C13_SearchRepeats ==
  (call.op = "search" /\ ret # <<>> /\ index # <<>> /\ call.limit > 0)
    => ret[1] \in FreshAnswers(call.query, call.limit, call.user_ingredients)

\* the reload operation has completed
Reloaded == call.op = "reload" /\ ret # <<>>

\* C14: after the reload operation completes the criticality cache has been
\* discarded together with the alias and substitution tables: it holds no
\* entry computed before the reload, so it is empty or holds what a preload
\* of the corpus computes anew.
C14_ReloadDiscardsCache ==
  Reloaded =>
    \/ ingredient_patterns = << >>
    \/ ingredient_patterns \in preload_pattern_analysis(recipe_metadata, << >>)

\* ------------------------------------------------------------------------
\* Properties of the persisted cache
\* ------------------------------------------------------------------------

\* C15: save is atomic: if writing any one of the artifacts fails, the
\* previously persisted artifact set is left untouched: an initialize that
\* raises out of its save leaves every file as it was.
C15_FailedSaveLeavesDisk ==
  [][(/\ call = Idle
      /\ call'.op = "initialize"
      /\ call'.path \in {"build", "fallback"}
      /\ ret'[1].raised)
       => disk' = disk]_vars

\* C16: after initialize completes, loaded from the cache or rebuilt, the
\* numbers of recipe records, of searchable texts and of vectors in the index
\* are equal, and no search is given an index position without a recipe record
\* (for which it raises).
C16_CountsAgree ==
  /\ (call.op = "initialize" /\ ret # <<>> /\ ~ret[1].raised)
       => /\ Len(recipe_metadata) = Len(recipe_texts)
          /\ Len(recipe_metadata) = Len(index[1])
  /\ (call.op = "search" /\ ret # <<>>) => ~ret[1].raised

\* initialize has ended on the way through the failed load of a valid cache
FellBack == call.op = "initialize" /\ ret # <<>> /\ call.path = "fallback"

\* C18: if the persisted cache passes the validity check and deserialising an
\* artifact fails during the load, initialize reloads the corpus from the
\* source and rebuilds the index from it, keeping nothing of the failed load,
\* and when it completes every artifact has been saved again from them and
\* the cache is valid.
C18_FailedLoadRebuilds ==
  FellBack =>
    /\ recipe_metadata = _load_recipes(call.source)
    /\ recipe_texts = _load_texts(call.source)
    /\ index = << _create_faiss_index(call.source) >>
    /\ ~ret[1].raised =>
         /\ \A f \in Artifacts :
              disk[f] = FileOf(SavedContent(recipe_metadata, recipe_texts, index[1])[f])
         /\ _has_cached_embeddings(disk) = [raised |-> FALSE, value |-> TRUE]

\* initialize completed after a failed load, on the three-row source, over a
\* data directory whose records, read before the failure, were of another one
C18_Witness ==
  /\ FellBack
  /\ ~ret[1].raised
  /\ call.source = PieSource
  /\ Len(recipe_metadata) = 3
  /\ ingredient_patterns # << >>

\* the cache check has returned, or raised, in ret[1]
CacheChecked == call.op = "has_cached_embeddings" /\ ret # <<>>

\* C19: the validity check returns true if and only if all four artifact files
\* exist and the config parses and has the keys model_name, num_recipes and
\* embedding_dim; in every other case it returns false without raising.
C19_ValidIffCompleteAndKeyed ==
  CacheChecked =>
    /\ ~ret[1].raised
    /\ ret[1].value = (/\ \A f \in Artifacts : disk[f].kind # "absent"
                       /\ disk["config"].kind = "written"
                       /\ disk["config"].content.shape = "object"
                       /\ RequiredKeys \subseteq disk["config"].content.keys)

\* ------------------------------------------------------------------------
\* Properties of the accessors
\* ------------------------------------------------------------------------

\* C17: a search issued before the vector index has been built fails with an
\* error; it never returns an empty result list that the caller cannot tell
\* apart from "no matches".
C17_SearchBeforeBuildFails ==
  (call.op = "search" /\ ret # <<>> /\ index = <<>>) => ret[1].raised

\* the records as they were loaded: initialize saved them, or read them from
\* where an earlier one had saved them
AsLoaded == disk["metadata"].content

\* C20: no mutation that a caller performs on the sequence get_all returned or
\* on a record inside it changes the corpus of the engine: a later get_all or
\* get_by_id observes the records as they were loaded.
C20_AccessorsShowRecordsAsLoaded ==
  /\ (call.op = "get_all" /\ ret # <<>>) => ret[1] = AsLoaded
  /\ (call.op = "get_by_id" /\ ret # <<>> /\ ret[1].found)
       => \E p \in 1..Len(AsLoaded) : ret[1].recipe = AsLoaded[p]

\* the searches in flight have all returned
AllReturned ==
  /\ call.op = "searches"
  /\ tasks # <<>>
  /\ \A t \in 1..Len(tasks) : tasks[t].at = "returned"

\* the outcomes of running the searches of `order` one after another, each
\* to its return before the next is called, from the cache `patterns`: the
\* cache left and the answer of every search
RECURSIVE SerialRuns(_, _, _)
SerialRuns(patterns, order, answers) ==
  IF order = <<>> THEN { [patterns |-> patterns, answers |-> answers] }
  ELSE LET task == tasks[Head(order)]
       IN  UNION { SerialRuns(o.patterns, Tail(order),
                              answers @@ (Head(order) :>
                                            [raised |-> o.raised, results |-> o.results])) :
                   o \in SearchLoop(
                           recipe_metadata, ingredient_aliases, ingredient_substitutions,
                           IndexSearch(index[1], task.query, faiss_ties,
                                       Min(Min(task.limit * 4, Len(recipe_metadata)),
                                           Len(index[1]))),
                           task.limit, task.user_ingredients, 1,
                           [results |-> <<>>, patterns |-> patterns, raised |-> FALSE]) }

\* C21: when searches that ran concurrently have all returned, the cache and
\* the answer of every search are those of running the same searches one
\* after another, in some order, from the cache the first of them found
C21_InterleavingsAreSerial ==
  AllReturned =>
    \E order \in Orderings(1..Len(tasks)) :
      \E run \in SerialRuns(call.patterns, order, << >>) :
        /\ run.patterns = ingredient_patterns
        /\ \A t \in 1..Len(tasks) :
             run.answers[t] = [raised |-> tasks[t].raised, results |-> tasks[t].results]

\* the tier list of a match result that shows a missing tag under a tier
ShownAs(match, tag, tier) ==
  IF tier = "critical" THEN tag \in Range(match.critical_missing)
  ELSE IF tier = "important" THEN tag \in Range(match.important_missing)
  ELSE tag \in Range(match.replaceable_missing)

\* every missing tag of a match whose pair had a tier in `patterns` is shown
\* under that tier
ShowsStoredTiers(patterns, recipe_name, match) ==
  \A i \in 1..Len(match.missing) :
    CacheKey(recipe_name, match.missing[i]) \in DOMAIN patterns
      => ShownAs(match, match.missing[i],
                 patterns[CacheKey(recipe_name, match.missing[i])])

\* a scoring or a search with user ingredients is the step taken
LooksUpTiers ==
  /\ call = Idle
  /\ call'.op \in {"match", "search"}
  /\ call'.user_ingredients # <<>>

\* C22: a scoring or a search leaves every stored entry of the criticality
\* cache in place with its tier, and reports every missing ingredient whose
\* pair had a stored tier under that tier
C22_StoredTiersStay ==
  [][LooksUpTiers =>
       /\ \A k \in DOMAIN ingredient_patterns :
            /\ k \in DOMAIN ingredient_patterns'
            /\ ingredient_patterns'[k] = ingredient_patterns[k]
       /\ call'.op = "match" =>
            ShowsStoredTiers(ingredient_patterns, recipe_metadata[call'.recipe].name,
                             ret'[1])
       /\ call'.op = "search" =>
            \A i \in 1..Len(ret'[1].results) :
              ShowsStoredTiers(ingredient_patterns, ret'[1].results[i].name,
                               ret'[1].results[i].match)]_vars

\* a scoring has reported a missing ingredient whose tier was stored by the
\* preload: the cache is as the preload left it
C22_Witness ==
  /\ call.op = "match"
  /\ call.user_ingredients # <<>>
  /\ \E i \in 1..Len(ret[1].missing) :
       /\ CacheKey(recipe_metadata[call.recipe].name, ret[1].missing[i])
            \in DOMAIN ingredient_patterns
       /\ ret[1].missing[i] \notin Range(ret[1].critical_missing)
  /\ ingredient_patterns \in preload_pattern_analysis(recipe_metadata, << >>)

\* no recipe of the corpus has a name similar to recipe_name
NoSimilarRecipes(recipe_name) ==
  \A p \in 1..Len(recipe_metadata) : ~IsSimilarName(recipe_name, recipe_metadata[p].name)

\* C23: for every recipe whose name has no similar recipe in the corpus, the
\* lookup of the criticality of each of its ingredient tags gives optional
C23_NoSimilarMeansOptional ==
  \A p \in 1..Len(recipe_metadata) :
    NoSimilarRecipes(recipe_metadata[p].name) =>
      \A i \in 1..Len(recipe_metadata[p].ingredient_tags) :
        _get_pattern_based_criticality(
          recipe_metadata, ingredient_patterns, recipe_metadata[p].name,
          recipe_metadata[p].ingredient_tags[i]).tier = "optional"

\* the tier the cache now holds for a tag of the recipe just scored
TierNow(tag) ==
  _get_pattern_based_criticality(recipe_metadata, ingredient_patterns,
                                 recipe_metadata[call.recipe].name, tag).tier

\* C24: in every MatchResult the suggestions have at most 5 entries, each
\* for one of the first 5 missing ingredients and none for an ingredient the
\* user's list matches; after a scoring with user ingredients the missing
\* list runs from the critical to the rare ingredients
C24_SuggestionsForFirstFiveMissing ==
  Scored =>
    /\ call.user_ingredients # <<>> =>
         \A i \in 1..(Len(ret[1].missing) - 1) :
           TierWeight(TierNow(ret[1].missing[i]))
             >= TierWeight(TierNow(ret[1].missing[i + 1]))
    /\ Cardinality(DOMAIN ret[1].substitution_suggestions) <= 5
    /\ \A tag \in DOMAIN ret[1].substitution_suggestions :
         /\ \E i \in 1..Len(ret[1].missing) : i <= 5 /\ ret[1].missing[i] = tag
         /\ ret[1].substitution_suggestions[tag] # <<>>
         /\ ~_ingredients_match(ingredient_aliases, _normalize_ingredient(tag),
                                NormalizeAll(call.user_ingredients))

\* seven ingredients are missing, the first five have their suggestions and
\* the last, which has substitutions in the table, has none
C24_Witness ==
  /\ Scored
  /\ Len(ret[1].missing) > 5
  /\ Cardinality(DOMAIN ret[1].substitution_suggestions) = 5
  /\ ret[1].missing[Len(ret[1].missing)] \notin DOMAIN ret[1].substitution_suggestions
  /\ _get_ingredient_substitution_suggestions(
       ingredient_substitutions, ret[1].missing[Len(ret[1].missing)]) # <<>>
  /\ ret[1].missing[1] # recipe_metadata[call.recipe].ingredient_tags[1]

\* the positions of the records that have an id
WithId(recipe_id) == { p \in 1..Len(recipe_metadata) : recipe_metadata[p].id = recipe_id }

\* C25: once the corpus is loaded from the source the record at each
\* position, counted from 1, has that position as its id in every later
\* state, so the ids are distinct and do not change; get_recipe_by_id returns
\* the record of the id it is asked for, and nothing when no record has it
C25_IdsArePositions ==
  /\ \A p \in 1..Len(recipe_metadata) : recipe_metadata[p].id = p
  /\ \A p, q \in 1..Len(recipe_metadata) :
       recipe_metadata[p].id = recipe_metadata[q].id => p = q
  /\ (call.op = "get_by_id" /\ ret # <<>>) =>
       /\ ret[1].found <=> WithId(call.recipe_id) # {}
       /\ ret[1].found =>
            /\ ret[1].recipe.id = call.recipe_id
            /\ \E p \in WithId(call.recipe_id) : ret[1].recipe = recipe_metadata[p]

\* the last record of a corpus is returned for its id after a caller renamed
\* it; an id no record has was asked for in another state
C25_Witness ==
  /\ call.op = "get_by_id"
  /\ call.recipe_id = Len(recipe_metadata)
  /\ call.recipe_id > 1
  /\ ret[1].found
  /\ ret[1].recipe.name = CallerName

\* "Tomato Basil Soup" has been scored against the user's tomato and onion
ScenarioScored ==
  /\ Scored
  /\ recipe_metadata[call.recipe].name = <<"T","o","m","a","t","o"," ","B","a","s","i","l"," ","S","o","u","p">>
  /\ call.user_ingredients = << <<"t","o","m","a","t","o">>, <<"o","n","i","o","n">> >>

\* C26: for the corpus of the two soups and the user ingredients tomato and
\* onion, the MatchResult of "Tomato Basil Soup" has matches 2 and missing
\* [basil]; both recipes are similar to its name, basil is a tag of one of
\* the two, and basil is reported as important
C26_TomatoBasilSoup ==
  ScenarioScored =>
    /\ ret[1].matches = 2
    /\ ret[1].total = 3
    /\ ret[1].missing = << <<"b","a","s","i","l">> >>
    /\ Range(_find_similar_recipes_by_name(recipe_metadata, <<"T","o","m","a","t","o"," ","B","a","s","i","l"," ","S","o","u","p">>,
                                           SimilarLimit)) = {1, 2}
    /\ Cardinality({ p \in {1, 2} :
                       <<"b","a","s","i","l">> \in Range(recipe_metadata[p].ingredient_tags) }) = 1
    /\ ret[1].important_missing = << <<"b","a","s","i","l">> >>
    /\ ret[1].critical_missing = <<>>
    /\ ret[1].replaceable_missing = <<>>

\* the scenario's scoring has returned for the corpus of the two soups
C26_Witness ==
  /\ ScenarioScored
  /\ Len(recipe_metadata) = 2
  /\ recipe_metadata[1].name = <<"T","o","m","a","t","o"," ","S","o","u","p">>
  /\ ret[1].percentage = 667

\* every entry of a user list normalizes to the empty string
AllNormalizeToEmpty(user_ingredients) ==
  /\ user_ingredients # <<>>
  /\ \A i \in 1..Len(user_ingredients) : _normalize_ingredient(user_ingredients[i]) = <<>>

\* C27: a scoring against a user list whose entries all normalize to the
\* empty string counts no ingredient of the recipe as matched
C27_EmptyUserEntriesMatchNothing ==
  (Scored /\ AllNormalizeToEmpty(call.user_ingredients)) => ret[1].matches = 0

\* C28: an entry of the criticality cache is the entry of at most one
\* (recipe name, ingredient) pair: no two different pairs are looked up
\* under the key of a stored entry
C28_PairsShareNoEntry ==
  \A p, q \in 1..Len(recipe_metadata) :
    \A i \in 1..Len(recipe_metadata[p].ingredient_tags) :
      \A j \in 1..Len(recipe_metadata[q].ingredient_tags) :
        LET one   == <<recipe_metadata[p].name, recipe_metadata[p].ingredient_tags[i]>>
            other == <<recipe_metadata[q].name, recipe_metadata[q].ingredient_tags[j]>>
        IN  (one # other /\ CacheKey(one[1], one[2]) \in DOMAIN ingredient_patterns)
              => CacheKey(other[1], other[2]) # CacheKey(one[1], one[2])


\* ------------------------------------------------------------------------
\* Properties of the two copies
\* ------------------------------------------------------------------------

\* initialize has returned after a save that completed without error
SavedWithoutError ==
  /\ call.op = "initialize"
  /\ ret # <<>>
  /\ ~ret[1].raised
  /\ call.path \in {"build", "fallback"}

\* C29: in both copies of the service, immediately after a save that completed
\* without error the validity check returns true, so the next initialize
\* takes the load-from-cache path instead of rebuilding.
C29_SavedCacheIsValid ==
  SavedWithoutError =>
    /\ CacheCheckOf(disk) = [raised |-> FALSE, value |-> TRUE]
    /\ \A source \in StoreSources :
         Started(disk, source, NoFault, CacheCheckOf(disk)).path = "cache"


\* how often x occurs in the sequence xs
Occurrences(xs, x) == Cardinality({ i \in 1..Len(xs) : xs[i] = x })

\* the tags of the recipe just scored
ScoredTags == recipe_metadata[call.recipe].ingredient_tags

\* the user's list matches the tag
MatchedByUser(tag) ==
  _ingredients_match(ingredient_aliases, _normalize_ingredient(tag),
                     NormalizeAll(call.user_ingredients))

\* the tier lists of the MatchResult that hold the tag
ListsHolding(tag) ==
  { l \in {"critical_missing", "important_missing", "replaceable_missing"} :
      tag \in Range(ret[1][l]) }

\* C30: in every MatchResult matches + |missing| = total; missing is the
\* critical list, then the important list, then the optional and the rare
\* ingredients (which the result holds as replaceable_missing, the optional
\* before the rare); every tag the user's list does not match is in exactly
\* one tier list, as often as the recipe lists it, and a matched tag in none;
\* hasAllIngredients is true exactly when missing is empty and total > 0
C30_MissingIsPartitioned ==
  Scored =>
    /\ ret[1].total = Len(ScoredTags)
    /\ ret[1].matches + Len(ret[1].missing) = ret[1].total
    /\ ret[1].missing = ret[1].critical_missing \o ret[1].important_missing
                          \o ret[1].replaceable_missing
    /\ (call.user_ingredients # <<>> /\ ScoredTags # <<>>) =>
         /\ \A tag \in Range(ret[1].critical_missing) : TierNow(tag) = "critical"
         /\ \A tag \in Range(ret[1].important_missing) : TierNow(tag) = "important"
         /\ \A tag \in Range(ret[1].replaceable_missing) :
              TierNow(tag) \in {"optional", "rare"}
         /\ \A i \in 1..(Len(ret[1].replaceable_missing) - 1) :
              TierNow(ret[1].replaceable_missing[i]) = "rare"
                => TierNow(ret[1].replaceable_missing[i + 1]) = "rare"
    /\ \A tag \in Range(ScoredTags) :
         IF MatchedByUser(tag)
           THEN ListsHolding(tag) = {}
           ELSE /\ Cardinality(ListsHolding(tag)) = 1
                /\ Occurrences(ret[1].missing, tag) = Occurrences(ScoredTags, tag)
    /\ ret[1].hasAllIngredients <=> (ret[1].missing = <<>> /\ ret[1].total > 0)

\* a scoring matched some tags of the recipe and filed the others under more
\* than one tier
C30_Witness ==
  /\ Scored
  /\ ret[1].matches > 0
  /\ ret[1].critical_missing # <<>>
  /\ ret[1].replaceable_missing # <<>>
  /\ ~ret[1].hasAllIngredients

====
